---- MODULE Spec2Model ----
(***************************************************************************)
(* l402-js: the L402 Express middleware (server) and the L402 auto-paying  *)
(* fetch client.  Strings are sequences of one-character strings; a byte   *)
(* is a number in 0..255.                                                  *)
(***************************************************************************)
EXTENDS Integers, Sequences, FiniteSets, TLC

(***************************************************************************)
(* Characters and bytes                                                    *)
(***************************************************************************)

\* Printable ASCII, code 32 (space) to 126 (~): Ascii[i] has code i + 31
\* (the grave accent, code 96, is written U+0060).
Ascii ==
  <<" ", "!", "\"", "#", "$", "%", "&", "'", "(", ")", "*", "+", ",", "-", ".", "/",
    "0", "1", "2", "3", "4", "5", "6", "7", "8", "9", ":", ";", "<", "=", ">", "?",
    "@", "A", "B", "C", "D", "E", "F", "G", "H", "I", "J", "K", "L", "M", "N", "O",
    "P", "Q", "R", "S", "T", "U", "V", "W", "X", "Y", "Z", "[", "\\", "]", "^", "_",
    "U+0060", "a", "b", "c", "d", "e", "f", "g", "h", "i", "j", "k", "l", "m", "n", "o",
    "p", "q", "r", "s", "t", "u", "v", "w", "x", "y", "z", "{", "|", "}", "~">>

AsciiChars == {Ascii[i] : i \in 1..Len(Ascii)}

\* U+FFFD, what a UTF-8 decoder yields for a byte that starts no valid sequence,
\* and one stand-in for the control characters below code 32.
ReplacementChar == "U+FFFD"
ControlChar == "U+0000"

CharCode == [c \in AsciiChars |-> (CHOOSE i \in 1..Len(Ascii) : Ascii[i] = c) + 31]

\* Buffer.from(string): the UTF-8 bytes of a string; U+FFFD is EF BF BD.
RECURSIVE Utf8EncodeWide(_)
Utf8EncodeWide(s) ==
  IF s = <<>> THEN <<>>
  ELSE (IF Head(s) \in AsciiChars THEN <<CharCode[Head(s)]>>
        ELSE IF Head(s) = ControlChar THEN <<0>>
        ELSE <<239, 191, 189>>) \o Utf8EncodeWide(Tail(s))

Utf8Encode(s) ==
  IF \A i \in 1..Len(s) : s[i] \in AsciiChars
    THEN [i \in 1..Len(s) |-> CharCode[s[i]]]
    ELSE Utf8EncodeWide(s)

\* A byte below 128 is its ASCII character; a byte from 128 up that starts
\* no valid sequence is U+FFFD.
Utf8DecodeByte(b) ==
  IF b >= 32 /\ b <= 126 THEN Ascii[b - 31]
  ELSE IF b < 32 \/ b = 127 THEN ControlChar
  ELSE ReplacementChar

\* Variant: every byte is decoded on its own.
Utf8Decode_Bytewise(bytes) == [i \in 1..Len(bytes) |-> Utf8DecodeByte(bytes[i])]

\* EF BF BD is the one multi-byte sequence the model's strings encode to: it
\* decodes to the one character U+FFFD.
RECURSIVE Utf8DecodeWide(_)
Utf8DecodeWide(bytes) ==
  IF bytes = <<>> THEN <<>>
  ELSE IF Len(bytes) >= 3 /\ SubSeq(bytes, 1, 3) = <<239, 191, 189>>
    THEN <<ReplacementChar>> \o Utf8DecodeWide(SubSeq(bytes, 4, Len(bytes)))
  ELSE <<Utf8DecodeByte(Head(bytes))>> \o Utf8DecodeWide(Tail(bytes))

\* Buffer.toString(): the string the bytes are the UTF-8 of, with U+FFFD for
\* a byte that starts no valid sequence.
Utf8Decode(bytes) ==
  IF \A i \in 1..Len(bytes) : bytes[i] < 128
    THEN [i \in 1..Len(bytes) |-> Utf8DecodeByte(bytes[i])]
    ELSE Utf8DecodeWide(bytes)

(***************************************************************************)
(* Hex                                                                     *)
(***************************************************************************)

HexDigits == <<"0", "1", "2", "3", "4", "5", "6", "7", "8", "9", "a", "b", "c", "d", "e", "f">>

\* The value of a hex digit of either case, -1 for any other character.
HexVal(c) ==
  IF \E i \in 1..16 : HexDigits[i] = c THEN (CHOOSE i \in 1..16 : HexDigits[i] = c) - 1
  ELSE IF c = "A" THEN 10 ELSE IF c = "B" THEN 11 ELSE IF c = "C" THEN 12
  ELSE IF c = "D" THEN 13 ELSE IF c = "E" THEN 14 ELSE IF c = "F" THEN 15
  ELSE -1

\* Buffer.from(s, 'hex'): floor(length / 2) pairs, cut at the first pair that
\* holds a character that is no hex digit.
RECURSIVE HexDecode(_)
HexDecode(s) ==
  IF Len(s) < 2 THEN <<>>
  ELSE IF HexVal(s[1]) < 0 \/ HexVal(s[2]) < 0 THEN <<>>
  ELSE <<16 * HexVal(s[1]) + HexVal(s[2])>> \o HexDecode(SubSeq(s, 3, Len(s)))

\* buffer.toString('hex') and digest('hex'): two lower-case digits per byte.
RECURSIVE HexEncode(_)
HexEncode(bytes) ==
  IF bytes = <<>> THEN <<>>
  ELSE <<HexDigits[(Head(bytes) \div 16) + 1], HexDigits[(Head(bytes) % 16) + 1]>>
       \o HexEncode(Tail(bytes))

(***************************************************************************)
(* Base64                                                                  *)
(***************************************************************************)

B64Alphabet ==
  <<"A", "B", "C", "D", "E", "F", "G", "H", "I", "J", "K", "L", "M", "N", "O", "P",
    "Q", "R", "S", "T", "U", "V", "W", "X", "Y", "Z", "a", "b", "c", "d", "e", "f",
    "g", "h", "i", "j", "k", "l", "m", "n", "o", "p", "q", "r", "s", "t", "u", "v",
    "w", "x", "y", "z", "0", "1", "2", "3", "4", "5", "6", "7", "8", "9", "+", "/">>

\* The sextet of a base64 character (the URL-safe '-' and '_' are read too),
\* -1 for any other character.
Unbase64(c) ==
  IF \E i \in 1..64 : B64Alphabet[i] = c THEN (CHOOSE i \in 1..64 : B64Alphabet[i] = c) - 1
  ELSE IF c = "-" THEN 62 ELSE IF c = "_" THEN 63 ELSE -1

\* buffer.toString('base64'): three bytes to four characters, '=' padded.
\* Character j of the output belongs to the group of bytes b1 b2 b3.
Base64Encode(bytes) ==
  LET n == Len(bytes) IN
  [j \in 1..(4 * ((n + 2) \div 3)) |->
     LET g == (j - 1) \div 4
         r == (j - 1) % 4
         b1 == bytes[3 * g + 1]
         b2 == IF 3 * g + 2 <= n THEN bytes[3 * g + 2] ELSE 0
         b3 == IF 3 * g + 3 <= n THEN bytes[3 * g + 3] ELSE 0
     IN CASE r = 0 -> B64Alphabet[(b1 \div 4) + 1]
          [] r = 1 -> B64Alphabet[((b1 % 4) * 16 + b2 \div 16) + 1]
          [] r = 2 -> IF 3 * g + 2 > n THEN "="
                      ELSE B64Alphabet[((b2 % 16) * 4 + b3 \div 64) + 1]
          [] OTHER -> IF 3 * g + 3 > n THEN "=" ELSE B64Alphabet[(b3 % 64) + 1]]

IsB64Char(c) == Unbase64(c) >= 0

\* The sextets Node's decoder reads: '=' ends the input, and characters
\* outside the alphabet are skipped.
B64Sextets(s) ==
  LET stop == IF \E i \in 1..Len(s) : s[i] = "="
                THEN CHOOSE i \in 1..Len(s) : s[i] = "=" /\ \A j \in 1..(i - 1) : s[j] # "="
                ELSE Len(s) + 1
      kept == SelectSeq(SubSeq(s, 1, stop - 1), IsB64Char)
  IN [i \in 1..Len(kept) |-> Unbase64(kept[i])]

\* Four sextets to three bytes; a last group of two or three sextets gives
\* one or two bytes, a lone sextet none.
SextetsToBytes(x) ==
  LET rem == Len(x) % 4
      n == 3 * (Len(x) \div 4) + (IF rem = 2 THEN 1 ELSE IF rem = 3 THEN 2 ELSE 0)
  IN [k \in 1..n |->
        LET g == (k - 1) \div 3
            r == (k - 1) % 3
        IN CASE r = 0 -> x[4 * g + 1] * 4 + x[4 * g + 2] \div 16
             [] r = 1 -> (x[4 * g + 2] % 16) * 16 + x[4 * g + 3] \div 4
             [] OTHER -> (x[4 * g + 3] % 4) * 64 + x[4 * g + 4]]

\* Buffer.from(s, 'base64'): never throws.
Base64Decode(s) == SextetsToBytes(B64Sextets(s))

(***************************************************************************)
(* JSON values                                                             *)
(* A JavaScript value is a record of one shape: t is its type, n the       *)
(* number (or 0/1 for a boolean), s the characters of a string, f the      *)
(* members of an object (<<key, value>> pairs, in order) or the elements   *)
(* of an array (with the key <<>>).  The model's numbers are integers,     *)
(* NaN ("nan") and Infinity ("inf").                                       *)
(***************************************************************************)

JUndef == [t |-> "undef", n |-> 0, s |-> <<>>, f |-> <<>>]
JNull == [t |-> "null", n |-> 0, s |-> <<>>, f |-> <<>>]
JBool(b) == [t |-> "bool", n |-> IF b THEN 1 ELSE 0, s |-> <<>>, f |-> <<>>]
JNum(k) == [t |-> "num", n |-> k, s |-> <<>>, f |-> <<>>]
JStr(str) == [t |-> "str", n |-> 0, s |-> str, f |-> <<>>]
JNaN == [t |-> "nan", n |-> 0, s |-> <<>>, f |-> <<>>]
JInfinity == [t |-> "inf", n |-> 0, s |-> <<>>, f |-> <<>>]
JObj(members) == [t |-> "obj", n |-> 0, s |-> <<>>, f |-> members]
JArr(elements) == [t |-> "arr", n |-> 0, s |-> <<>>, f |-> elements]

\* JavaScript's ToBoolean.
Truthy(v) ==
  CASE v.t = "undef" -> FALSE
    [] v.t = "null" -> FALSE
    [] v.t = "nan" -> FALSE
    [] v.t = "bool" -> v.n = 1
    [] v.t = "num" -> v.n # 0
    [] v.t = "str" -> v.s # <<>>
    [] OTHER -> TRUE

\* v.key for a value that is neither null nor undefined: the last member of
\* that name of an object, undefined when there is none or v is no object.
RECURSIVE GetProp(_, _)
GetProp(v, key) ==
  IF v.t # "obj" \/ v.f = <<>> THEN JUndef
  ELSE IF v.f[Len(v.f)][1] = key THEN v.f[Len(v.f)][2]
  ELSE GetProp(JObj(SubSeq(v.f, 1, Len(v.f) - 1)), key)

Digits == <<"0", "1", "2", "3", "4", "5", "6", "7", "8", "9">>

IsDigit(c) == \E d \in 1..10 : Digits[d] = c

DigitVal(c) == (CHOOSE d \in 1..10 : Digits[d] = c) - 1

\* Number.prototype.toString of an integer.
RECURSIVE NatToStr(_)
NatToStr(k) ==
  IF k < 10 THEN <<Digits[k + 1]>> ELSE NatToStr(k \div 10) \o <<Digits[(k % 10) + 1]>>

IntToStr(k) == IF k < 0 THEN <<"-">> \o NatToStr(-k) ELSE NatToStr(k)

\* The characters of a string inside its JSON quotes.
RECURSIVE JSONEscape(_)
JSONEscape(str) ==
  IF str = <<>> THEN <<>>
  ELSE (IF Head(str) = "\"" THEN <<"\\", "\"">>
        ELSE IF Head(str) = "\\" THEN <<"\\", "\\">>
        ELSE IF Head(str) = ControlChar THEN <<"\\", "u", "0", "0", "0", "0">>
        ELSE <<Head(str)>>) \o JSONEscape(Tail(str))

JSONQuote(str) == <<"\"">> \o JSONEscape(str) \o <<"\"">>

\* JSON.stringify: members whose value is undefined are left out; an
\* undefined array element, NaN and Infinity are written null.
RECURSIVE JSONStringify(_)
RECURSIVE StringifyMembers(_, _)
RECURSIVE StringifyElements(_, _)
JSONStringify(v) ==
  CASE v.t = "null" -> <<"n", "u", "l", "l">>
    [] v.t \in {"undef", "nan", "inf"} -> <<"n", "u", "l", "l">>
    [] v.t = "bool" -> IF v.n = 1 THEN <<"t", "r", "u", "e">> ELSE <<"f", "a", "l", "s", "e">>
    [] v.t = "num" -> IntToStr(v.n)
    [] v.t = "str" -> JSONQuote(v.s)
    [] v.t = "obj" -> <<"{">> \o StringifyMembers(v.f, TRUE) \o <<"}">>
    [] OTHER -> <<"[">> \o StringifyElements(v.f, TRUE) \o <<"]">>

StringifyMembers(members, first) ==
  IF members = <<>> THEN <<>>
  ELSE IF Head(members)[2].t = "undef" THEN StringifyMembers(Tail(members), first)
  ELSE (IF first THEN <<>> ELSE <<",">>)
       \o JSONQuote(Head(members)[1]) \o <<":">> \o JSONStringify(Head(members)[2])
       \o StringifyMembers(Tail(members), FALSE)

StringifyElements(elements, first) ==
  IF elements = <<>> THEN <<>>
  ELSE (IF first THEN <<>> ELSE <<",">>)
       \o JSONStringify(Head(elements)[2])
       \o StringifyElements(Tail(elements), FALSE)

\* A parse step: ok, the value read, and the position after it.
PFail == [ok |-> FALSE, v |-> JUndef, i |-> 0]
POk(v, i) == [ok |-> TRUE, v |-> v, i |-> i]

\* Only the space is JSON whitespace among the model's characters.
RECURSIVE SkipWs(_, _)
SkipWs(s, i) == IF i <= Len(s) /\ s[i] = " " THEN SkipWs(s, i + 1) ELSE i

StartsAt(s, i, word) ==
  /\ i + Len(word) - 1 <= Len(s)
  /\ SubSeq(s, i, i + Len(word) - 1) = word

\* The character a \uXXXX escape stands for.
UnicodeChar(code) ==
  IF code >= 32 /\ code <= 126 THEN Ascii[code - 31]
  ELSE IF code < 32 \/ code = 127 THEN ControlChar
  ELSE ReplacementChar

\* The rest of a string literal, from position i (after the opening quote).
RECURSIVE ParseStringTail(_, _, _)
ParseStringTail(s, i, acc) ==
  IF i > Len(s) THEN PFail
  ELSE IF s[i] = "\"" THEN POk(JStr(acc), i + 1)
  ELSE IF s[i] = ControlChar THEN PFail
  ELSE IF s[i] # "\\" THEN ParseStringTail(s, i + 1, Append(acc, s[i]))
  ELSE IF i + 1 > Len(s) THEN PFail
  ELSE IF s[i + 1] \in {"\"", "\\", "/"} THEN ParseStringTail(s, i + 2, Append(acc, s[i + 1]))
  ELSE IF s[i + 1] \in {"b", "f", "n", "r", "t"} THEN ParseStringTail(s, i + 2, Append(acc, ControlChar))
  ELSE IF s[i + 1] = "u" /\ i + 5 <= Len(s) /\ \A k \in 2..5 : HexVal(s[i + k]) >= 0
    THEN ParseStringTail(s, i + 6,
           Append(acc, UnicodeChar(4096 * HexVal(s[i + 2]) + 256 * HexVal(s[i + 3])
                                   + 16 * HexVal(s[i + 4]) + HexVal(s[i + 5]))))
  ELSE PFail

RECURSIVE ParseDigits(_, _, _)
ParseDigits(s, i, acc) ==
  IF i <= Len(s) /\ IsDigit(s[i]) THEN ParseDigits(s, i + 1, 10 * acc + DigitVal(s[i]))
  ELSE [n |-> acc, i |-> i]

\* An integer literal: an optional minus, then 0 or a digit string with no
\* leading zero.  A fraction or exponent part is outside the model's inputs.
ParseNumber(s, i) ==
  LET neg == s[i] = "-"
      j == IF neg THEN i + 1 ELSE i
  IN IF j > Len(s) \/ ~IsDigit(s[j]) THEN PFail
     ELSE IF s[j] = "0" THEN POk(JNum(0), j + 1)
     ELSE LET d == ParseDigits(s, j, 0)
          IN POk(JNum(IF neg THEN -d.n ELSE d.n), d.i)

RECURSIVE ParseValue(_, _)
RECURSIVE ParseMembers(_, _, _)
RECURSIVE ParseElements(_, _, _)
ParseValue(s, i0) ==
  LET i == SkipWs(s, i0) IN
  IF i > Len(s) THEN PFail
  ELSE IF s[i] = "{" THEN
    (IF SkipWs(s, i + 1) <= Len(s) /\ s[SkipWs(s, i + 1)] = "}"
       THEN POk(JObj(<<>>), SkipWs(s, i + 1) + 1)
       ELSE ParseMembers(s, i + 1, <<>>))
  ELSE IF s[i] = "[" THEN
    (IF SkipWs(s, i + 1) <= Len(s) /\ s[SkipWs(s, i + 1)] = "]"
       THEN POk(JArr(<<>>), SkipWs(s, i + 1) + 1)
       ELSE ParseElements(s, i + 1, <<>>))
  ELSE IF s[i] = "\"" THEN ParseStringTail(s, i + 1, <<>>)
  ELSE IF StartsAt(s, i, <<"t", "r", "u", "e">>) THEN POk(JBool(TRUE), i + 4)
  ELSE IF StartsAt(s, i, <<"f", "a", "l", "s", "e">>) THEN POk(JBool(FALSE), i + 5)
  ELSE IF StartsAt(s, i, <<"n", "u", "l", "l">>) THEN POk(JNull, i + 4)
  ELSE IF s[i] = "-" \/ IsDigit(s[i]) THEN ParseNumber(s, i)
  ELSE PFail

\* "key": value, then a comma and more members or the closing brace.
ParseMembers(s, i0, acc) ==
  LET i == SkipWs(s, i0) IN
  IF i > Len(s) \/ s[i] # "\"" THEN PFail
  ELSE LET k == ParseStringTail(s, i + 1, <<>>) IN
    IF ~k.ok THEN PFail
    ELSE LET c == SkipWs(s, k.i) IN
      IF c > Len(s) \/ s[c] # ":" THEN PFail
      ELSE LET v == ParseValue(s, c + 1) IN
        IF ~v.ok THEN PFail
        ELSE LET e == SkipWs(s, v.i)
                 got == Append(acc, <<k.v.s, v.v>>)
             IN IF e > Len(s) THEN PFail
                ELSE IF s[e] = "}" THEN POk(JObj(got), e + 1)
                ELSE IF s[e] = "," THEN ParseMembers(s, e + 1, got)
                ELSE PFail

ParseElements(s, i0, acc) ==
  LET v == ParseValue(s, i0) IN
  IF ~v.ok THEN PFail
  ELSE LET e == SkipWs(s, v.i)
           got == Append(acc, <<<<>>, v.v>>)
       IN IF e > Len(s) THEN PFail
          ELSE IF s[e] = "]" THEN POk(JArr(got), e + 1)
          ELSE IF s[e] = "," THEN ParseElements(s, e + 1, got)
          ELSE PFail

\* JSON.parse: ok is FALSE where it throws a SyntaxError.
JSONParse(text) ==
  LET r == ParseValue(text, 1) IN
  IF r.ok /\ SkipWs(text, r.i) = Len(text) + 1 THEN r ELSE PFail

(***************************************************************************)
(* String operations                                                       *)
(***************************************************************************)

\* String.prototype.toLowerCase on ASCII.
ToLowerCase(s) ==
  [i \in 1..Len(s) |->
     IF s[i] \in AsciiChars /\ CharCode[s[i]] >= 65 /\ CharCode[s[i]] <= 90
       THEN Ascii[CharCode[s[i]] + 32 - 31]
       ELSE s[i]]

StartsWith(s, prefix) ==
  Len(s) >= Len(prefix) /\ SubSeq(s, 1, Len(prefix)) = prefix

\* s.lastIndexOf(c): the 0-based index of the last c, -1 when there is none.
LastIndexOf(s, c) ==
  IF \E i \in 1..Len(s) : s[i] = c
    THEN (CHOOSE i \in 1..Len(s) : s[i] = c /\ \A j \in (i + 1)..Len(s) : s[j] # c) - 1
    ELSE -1

\* s.slice(from) and s.slice(from, to), 0-based, to exclusive.
SliceFrom(s, from) == SubSeq(s, from + 1, Len(s))
Slice(s, from, to) == SubSeq(s, from + 1, to)

(***************************************************************************)
(* SHA-256                                                                 *)
(* A stand-in with SHA-256's two properties the protocol rests on: a       *)
(* fixed-length digest, and no two of the model's inputs (at most two      *)
(* bytes) with the same digest.  The input is numbered in base 257 and     *)
(* the number is spread over three bytes.                                  *)
(***************************************************************************)

RECURSIVE ByteNum(_)
ByteNum(bytes) ==
  IF bytes = <<>> THEN 0
  ELSE 257 * ByteNum(SubSeq(bytes, 1, Len(bytes) - 1)) + bytes[Len(bytes)] + 1

Sha256(bytes) ==
  LET d == (30011 * ByteNum(bytes) + 7654321) % 16777216
  IN <<d \div 65536, (d \div 256) % 256, d % 256>>

(***************************************************************************)
(* The middleware's helpers (src/middleware.ts)                            *)
(***************************************************************************)

KeyVersion == <<"v", "e", "r", "s", "i", "o", "n">>
KeyPaymentHash == <<"p", "a", "y", "m", "e", "n", "t", "H", "a", "s", "h">>
KeyService == <<"s", "e", "r", "v", "i", "c", "e">>
KeyIssuedAt == <<"i", "s", "s", "u", "e", "d", "A", "t">>

\* The object createServiceMacaroon serialises.
MacaroonData(paymentHash, service, now) ==
  JObj(<< <<KeyVersion, JNum(1)>>,
          <<KeyPaymentHash, JStr(paymentHash)>>,
          <<KeyService, JStr(service)>>,
          <<KeyIssuedAt, JNum(now)>> >>)

createServiceMacaroon(paymentHash, service, now) ==
  Base64Encode(Utf8Encode(JSONStringify(MacaroonData(paymentHash, service, now))))

\* null is [ok |-> FALSE]; JSON.parse throwing, and reading a property of
\* null (a TypeError), both end in the catch clause.
MacaroonNull == [ok |-> FALSE, data |-> JUndef]

\* The body of the try block, given what JSON.parse came to.
\* Variant: any JSON value that parses passes for a macaroon.
MacaroonOrNull_AnyJSON(parsed) ==
  IF parsed.ok /\ parsed.v.t # "null" THEN [ok |-> TRUE, data |-> parsed.v] ELSE MacaroonNull

MacaroonOrNull(parsed) ==
  IF ~parsed.ok THEN MacaroonNull
  ELSE IF parsed.v.t = "null" THEN MacaroonNull
  ELSE IF Truthy(GetProp(parsed.v, KeyVersion)) /\ Truthy(GetProp(parsed.v, KeyPaymentHash))
    THEN [ok |-> TRUE, data |-> parsed.v]
  ELSE MacaroonNull

parseServiceMacaroon(macaroonBase64) ==
  MacaroonOrNull(JSONParse(Utf8Decode(Base64Decode(macaroonBase64))))

\* commit(secret): the hex digest of the bytes the hex string decodes to.
PreimageHash(preimage) == HexEncode(Sha256(HexDecode(preimage)))

\* Variant: the comparison ignores the letter case of paymentHash.
verifyPreimage_IgnoreCase(preimage, paymentHash) ==
  paymentHash.t = "str" /\ PreimageHash(preimage) = ToLowerCase(paymentHash.s)

\* Variant: the hash is taken over the hex text, not over the bytes it
\* stands for.
verifyPreimage_HashText(preimage, paymentHash) ==
  paymentHash.t = "str" /\ HexEncode(Sha256(Utf8Encode(preimage))) = paymentHash.s

\* hash === paymentHash: strict equality, so a paymentHash that is no string
\* never matches.
verifyPreimage(preimage, paymentHash) ==
  paymentHash.t = "str" /\ PreimageHash(preimage) = paymentHash.s

(***************************************************************************)
(* The l402 middleware: what it decides from the Authorization header      *)
(***************************************************************************)

SchemePrefix == <<"l", "4", "0", "2", " ">>

NoProof == [present |-> FALSE, paid |-> FALSE, preimage |-> <<>>,
            paymentHash |-> JUndef, service |-> JUndef]

\* Variant: the proof is attached for any macaroon, the preimage unchecked.
AuthorizeProof_Unverified(macaroonData, preimage) ==
  IF macaroonData.ok
    THEN [branch |-> "next",
          l402 |-> [present |-> TRUE, paid |-> TRUE, preimage |-> preimage,
                    paymentHash |-> GetProp(macaroonData.data, KeyPaymentHash),
                    service |-> GetProp(macaroonData.data, KeyService)]]
    ELSE [branch |-> "reject", l402 |-> NoProof]

\* The branch the handler takes on req.headers.authorization: "next" with
\* the proof it attaches, "reject" (401), or "challenge" (no L402 header).
\* The innermost if, on the parsed macaroon and the preimage:
AuthorizeProof(macaroonData, preimage) ==
  IF macaroonData.ok /\ verifyPreimage(preimage, GetProp(macaroonData.data, KeyPaymentHash))
    THEN [branch |-> "next",
          l402 |-> [present |-> TRUE, paid |-> TRUE, preimage |-> preimage,
                    paymentHash |-> GetProp(macaroonData.data, KeyPaymentHash),
                    service |-> GetProp(macaroonData.data, KeyService)]]
    ELSE [branch |-> "reject", l402 |-> NoProof]

\* if (colonIndex > 0): the two halves of the token.
AuthorizeSplit(token, colonIndex) ==
  IF colonIndex > 0
    THEN AuthorizeProof(parseServiceMacaroon(Slice(token, 0, colonIndex)),
                        SliceFrom(token, colonIndex + 1))
    ELSE [branch |-> "reject", l402 |-> NoProof]

\* Variant: the token is split at its first colon (indexOf).
FirstIndexOf(s, c) ==
  IF \E i \in 1..Len(s) : s[i] = c
    THEN (CHOOSE i \in 1..Len(s) : s[i] = c /\ \A j \in 1..(i - 1) : s[j] # c) - 1
    ELSE -1

AuthorizeToken_FirstColon(token) == AuthorizeSplit(token, FirstIndexOf(token, ":"))

AuthorizeToken(token) == AuthorizeSplit(token, LastIndexOf(token, ":"))

\* Variant: the scheme is matched without the space that ends it.
Authorize_NoSpace(authHeader) ==
  IF Truthy(authHeader) /\ StartsWith(ToLowerCase(authHeader.s), <<"l", "4", "0", "2">>)
    THEN AuthorizeToken(SliceFrom(authHeader.s, 5))
    ELSE [branch |-> "challenge", l402 |-> NoProof]

\* Variant: the scheme is matched as written, in upper case only.
Authorize_CaseSensitive(authHeader) ==
  IF Truthy(authHeader) /\ StartsWith(authHeader.s, <<"L", "4", "0", "2", " ">>)
    THEN AuthorizeToken(SliceFrom(authHeader.s, 5))
    ELSE [branch |-> "challenge", l402 |-> NoProof]

Authorize(authHeader) ==
  IF Truthy(authHeader) /\ StartsWith(ToLowerCase(authHeader.s), SchemePrefix)
    THEN AuthorizeToken(SliceFrom(authHeader.s, 5))
    ELSE [branch |-> "challenge", l402 |-> NoProof]

(***************************************************************************)
(* Inputs                                                                  *)
(***************************************************************************)

\* Date.now() is one of 1..MaxClock.
MaxClock == 1

PathA == <<"/", "a">>
PathB == <<"/", "b">>
Paths == {PathA, PathB}
Methods == {<<"G", "E", "T">>}

\* Two preimages, as the hex strings a payer holds.
PreimageA == <<"a", "b">>
PreimageB == <<"0", "0">>

\* r_hash as LND returns it: the base64 of the payment hash.
RHashOf(preimage) == Base64Encode(Sha256(HexDecode(preimage)))
RHashes == {RHashOf(PreimageA), RHashOf(PreimageB)}

PaymentRequest == <<"l", "n", "b", "c", "1">>

\* The secret half of a credential: the two preimages, PreimageA in upper
\* case, PreimageA followed by characters that are no hex digits, and none.
Secrets == {PreimageA, PreimageB, <<"A", "B">>, <<"a", "b", "z", "z">>, <<>>}

TokenA == createServiceMacaroon(PreimageHash(PreimageA), PathA, 1)

EncodeJSON(v) == Base64Encode(Utf8Encode(JSONStringify(v)))

\* The token half of a credential: a macaroon of this server, and tokens
\* that are no macaroon.
BadTokens ==
  { EncodeJSON(JObj(<< <<KeyPaymentHash, JStr(PreimageHash(PreimageA))>>,
                       <<KeyService, JStr(PathA)>> >>)),
    EncodeJSON(JObj(<< <<KeyVersion, JNum(0)>>,
                       <<KeyPaymentHash, JStr(PreimageHash(PreimageA))>> >>)),
    EncodeJSON(JObj(<< <<KeyVersion, JNum(1)>>, <<KeyService, JStr(PathA)>> >>)),
    EncodeJSON(JObj(<< <<KeyVersion, JNum(1)>>, <<KeyPaymentHash, JStr(<<>>)>> >>)),
    EncodeJSON(JNull),
    EncodeJSON(JNum(5)),
    <<"n", "o", "-", "b", "6", "4">>,
    <<"e", "3", "0">> }

\* A macaroon whose paymentHash is PreimageA's hash in upper-case hex, one
\* whose paymentHash is a number, and TokenA with a colon inside the token.
OddTokens ==
  { EncodeJSON(JObj(<< <<KeyVersion, JNum(1)>>,
                       <<KeyPaymentHash, JStr(<<"C", "3", "8", "F", "5", "5">>)>>,
                       <<KeyService, JStr(PathA)>> >>)),
    EncodeJSON(JObj(<< <<KeyVersion, JNum(1)>>, <<KeyPaymentHash, JNum(7)>> >>)),
    TokenA \o <<":", "x">> }

Scheme == <<"L", "4", "0", "2", " ">>
SchemeLower == <<"l", "4", "0", "2", " ">>
Bearer == <<"B", "e", "a", "r", "e", "r", " ", "x">>

Credential(scheme, token, secret) == JStr(scheme \o token \o <<":">> \o secret)

\* The credential whose presentations are counted, and how far.
ReplayCredential == Credential(Scheme, TokenA, PreimageA)
MaxReplays == 2

\* The Authorization headers requests carry.
AuthHeaders ==
  {JUndef, JStr(Bearer),
   JStr(<<"L", "4", "0", "2", ":">> \o TokenA \o <<":">> \o PreimageA)}
  \cup {Credential(Scheme, TokenA, x) : x \in Secrets}
  \cup {Credential(SchemeLower, TokenA, x) : x \in {PreimageA, PreimageB}}
  \cup {JStr(SchemeLower \o TokenA), Credential(SchemeLower, <<"e", "3", "0">>, PreimageA)}
  \cup {Credential(Scheme, t, PreimageA) : t \in BadTokens \cup OddTokens}
  \cup {JStr(Scheme \o TokenA), JStr(Scheme \o <<":">> \o PreimageA), JStr(Scheme)}

\* Every header on PathA; on PathB no header, and a credential for PathA.
Requests ==
  [method : Methods, path : {PathA}, authorization : AuthHeaders]
  \cup [method : Methods, path : {PathB},
        authorization : {JUndef, Credential(Scheme, TokenA, PreimageA),
                         Credential(Scheme, TokenA, PreimageB)}]

\* The credentials a payer can build from a challenge of this server.
ChallengeCredentials ==
  {Credential(Scheme, createServiceMacaroon(HexEncode(Base64Decode(h)), path, now), x)
     : h \in RHashes, path \in Paths, now \in 1..MaxClock, x \in Secrets}

\* l402(config): the static prices, with and without the optional fields.
NoDescription == JUndef
Description == JStr(<<"B", "u", "y">>)
Configs ==
  {[price |-> JNum(p), priceFn |-> FALSE, description |-> NoDescription, skipTlsVerify |-> FALSE]
     : p \in {100, 0, -10}}
  \cup {[price |-> JNum(100), priceFn |-> TRUE, description |-> NoDescription, skipTlsVerify |-> TRUE],
        [price |-> JNum(100), priceFn |-> FALSE, description |-> Description, skipTlsVerify |-> TRUE]}

\* What a configured priceFn returns.
PriceFnResults == {JNum(200), JNaN, JInfinity}

\* What the POST to LND's /v1/invoices comes to: the fetch rejects, answers
\* with a status that is not OK, or answers with a JSON body.
LndThrows == [kind |-> "throw", r_hash |-> JUndef, payment_request |-> <<>>]
LndNotOk == [kind |-> "notok", r_hash |-> JUndef, payment_request |-> <<>>]
LndInvoice(r_hash) == [kind |-> "ok", r_hash |-> r_hash, payment_request |-> PaymentRequest]
LndReplies == {LndThrows, LndNotOk, LndInvoice(JUndef)} \cup {LndInvoice(JStr(h)) : h \in RHashes}
NoLndReply == [kind |-> "none", r_hash |-> JUndef, payment_request |-> <<>>]

(***************************************************************************)
(* The client (src/client.ts): JavaScript operators it uses                *)
(***************************************************************************)

\* The digits of a string that is a decimal number, as Number() reads it.
RECURSIVE DigitsVal(_, _)
DigitsVal(str, acc) ==
  IF str = <<>> THEN acc
  ELSE DigitsVal(Tail(str), 10 * acc + DigitVal(Head(str)))

IsDigits(str) == str # <<>> /\ \A i \in 1..Len(str) : IsDigit(str[i])

\* Variant: v >= k.
JsGreater_OrEqual(v, k) == v.t = "num" /\ v.n >= k

\* Variant: the comparison is made with the figures swapped.
JsGreater_Swapped(v, k) == v.t = "num" /\ k > v.n

\* v > k for a number k: v goes through ToNumber, and NaN compares false.
JsGreater(v, k) ==
  CASE v.t = "num" -> v.n > k
    [] v.t = "inf" -> TRUE
    [] v.t = "bool" -> v.n > k
    [] v.t = "null" -> 0 > k
    [] v.t = "str" -> IF v.s = <<>> THEN 0 > k
                      ELSE IsDigits(v.s) /\ DigitsVal(v.s, 0) > k
    [] OTHER -> FALSE

\* `${v}` in a template literal.
JsToString(v) ==
  CASE v.t = "num" -> IntToStr(v.n)
    [] v.t = "str" -> v.s
    [] v.t = "undef" -> <<"u", "n", "d", "e", "f", "i", "n", "e", "d">>
    [] v.t = "null" -> <<"n", "u", "l", "l">>
    [] v.t = "nan" -> <<"N", "a", "N">>
    [] v.t = "inf" -> <<"I", "n", "f", "i", "n", "i", "t", "y">>
    [] v.t = "bool" -> IF v.n = 1 THEN <<"t", "r", "u", "e">> ELSE <<"f", "a", "l", "s", "e">>
    [] OTHER -> <<"[", "o", "b", "j", "e", "c", "t", " ", "O", "b", "j", "e", "c", "t", "]">>

(***************************************************************************)
(* Client inputs                                                           *)
(***************************************************************************)

\* const { node, maxAutoPaySats = 10000 } = config
DefaultMaxAutoPaySats == 10000

\* A ceiling of the caller's own.
OwnCeiling == 1000

\* createL402Client(config): the ceiling left out or given, with and without
\* skipTlsVerify.  restHost and macaroon are the node's.
RestHost == <<"h", ":", "/", "/", "l", "n", "d">>
NodeMacaroon == <<"d", "e", "a", "d">>
ClientConfigs ==
  {[maxAutoPaySats |-> JUndef, skipTlsVerify |-> TRUE],
   [maxAutoPaySats |-> JNum(OwnCeiling), skipTlsVerify |-> FALSE]}

\* Two targets, and the calls that run on one client.
TargetA == <<"u", "/", "a">>
TargetB == <<"u", "/", "b">>
Targets == {TargetA, TargetB}
CallIds == {"c1", "c2"}

\* The options of a call: none, or a method, a body and a header X-Custom.
\* options.headers is a HeadersInit: headersAs tells whether the caller
\* passed a plain object ("record") or a Headers instance ("Headers").
NoOptions == [method |-> JUndef, body |-> JUndef, xCustom |-> JUndef, headersAs |-> "record"]
PostOptions == [method |-> JStr(<<"P", "O", "S", "T">>), body |-> JStr(<<"{", "}">>),
                xCustom |-> JStr(<<"v">>), headersAs |-> "record"]
HeadersOptions == [method |-> JUndef, body |-> JUndef, xCustom |-> JStr(<<"v">>),
                   headersAs |-> "Headers"]
RequestOptions == {NoOptions, PostOptions}

\* The first call goes to TargetA, with or without options; the second to
\* TargetA without options, or to TargetB with a Headers instance.
CallInputs(c) ==
  IF c = "c1" THEN {TargetA} \X RequestOptions
  ELSE {<<TargetA, NoOptions>>, <<TargetB, HeadersOptions>>}

KeyCode == <<"c", "o", "d", "e">>
KeyInvoice == <<"i", "n", "v", "o", "i", "c", "e">>
KeyMacaroon == <<"m", "a", "c", "a", "r", "o", "o", "n">>
KeyPrice == <<"p", "r", "i", "c", "e">>
KeyError == <<"e", "r", "r", "o", "r">>
KeyPaymentRequest == <<"p", "a", "y", "m", "e", "n", "t", "_", "r", "e", "q", "u", "e", "s", "t">>
KeyPaymentError == <<"p", "a", "y", "m", "e", "n", "t", "_", "e", "r", "r", "o", "r">>
KeyPaymentPreimage ==
  <<"p", "a", "y", "m", "e", "n", "t", "_", "p", "r", "e", "i", "m", "a", "g", "e">>

\* The token a target puts in its challenges: one per target and per call,
\* as each challenge has an invoice of its own.
MacaroonFor(c, url) ==
  <<"m", IF url = TargetA THEN "A" ELSE "B", IF c = "c1" THEN "1" ELSE "2">>

\* The prices a challenge names: the caller's ceiling, the default one, one
\* more than that, and none.
ChallengePrices ==
  {JNum(OwnCeiling), JNum(DefaultMaxAutoPaySats), JNum(DefaultMaxAutoPaySats + 1), JUndef}

\* The parsed body of a 402 response; a price of undefined is a body with
\* no price member.
ChallengeBody(c, url, price) ==
  JObj(<< <<KeyCode, JNum(402)>>, <<KeyInvoice, JStr(PaymentRequest)>>,
          <<KeyMacaroon, JStr(MacaroonFor(c, url))>> >>
       \o (IF price.t = "undef" THEN <<>> ELSE << <<KeyPrice, price>> >>))

\* What a request to a target comes to: the fetch rejects, or a response
\* arrives with a status and a JSON body.
TargetThrows == [kind |-> "throw", status |-> 0, body |-> JUndef]
Response(status, body) == [kind |-> "response", status |-> status, body |-> body]
FirstData == JStr(<<"f", "r", "e", "e">>)
PaidData == JStr(<<"p", "a", "i", "d">>)
Denied == JObj(<< <<KeyError, JStr(<<"n", "o">>)>> >>)
\* A body that is not JSON text, as the empty body of a 204: Response.json()
\* rejects on it.
NoContent == [t |-> "text", n |-> 0, s |-> <<>>, f |-> <<>>]
IsJson(body) == body.t # "text"
FirstResponses(c, url) ==
  {TargetThrows, Response(200, FirstData), Response(401, Denied),
   Response(204, NoContent)}
  \cup {Response(402, ChallengeBody(c, url, price)) : price \in ChallengePrices}
RetryResponses(c, url) ==
  {TargetThrows, Response(200, PaidData),
   Response(402, ChallengeBody(c, url, JNum(OwnCeiling)))}

\* What the POST to LND's /v1/channels/transactions comes to; a payment
\* that went through reveals the preimage of the invoice, in base64.
PaymentBody(payment_error, payment_preimage) ==
  JObj(<< <<KeyPaymentError, JStr(payment_error)>>,
          <<KeyPaymentPreimage, payment_preimage>> >>)
InsufficientBalance == <<"n", "o", " ", "f", "u", "n", "d", "s">>
PreimageOf(c) == IF c = "c1" THEN PreimageA ELSE PreimageB
PaymentThrows == [kind |-> "throw", ok |-> FALSE, body |-> JUndef]
PaymentNotOk == [kind |-> "response", ok |-> FALSE, body |-> JUndef]
PaymentReply(body) == [kind |-> "response", ok |-> TRUE, body |-> body]
PaymentReplies(c) ==
  {PaymentThrows, PaymentNotOk,
   PaymentReply(PaymentBody(InsufficientBalance, JStr(<<>>))),
   PaymentReply(PaymentBody(<<>>, JStr(Base64Encode(HexDecode(PreimageOf(c))))))}

(***************************************************************************)
(* State                                                                   *)
(***************************************************************************)

VARIABLES
  mw,       \* the config the middleware was built with
  tlsEnv,   \* process.env.NODE_TLS_REJECT_UNAUTHORIZED
  tlsOrig,  \* its value before anything was constructed
  pending,  \* the request waiting on priceFn or on LND
  last,     \* the request handled last, with what the handler did
  client,      \* the config createL402Client was called with
  tokenCache,  \* the client's Map from url to Authorization header
  calls,       \* the calls of client.fetch: where each one is, and what it did
  probe        \* the helpers of index.ts applied to inputs of their own

vars == <<mw, tlsEnv, tlsOrig, pending, last, client, tokenCache, calls, probe>>

serverVars == <<mw, pending, last>>
clientVars == <<client, tokenCache, calls>>
helperVars == <<probe>>

NoRequest == [method |-> <<>>, path |-> <<>>, authorization |-> JUndef]

Idle == [pc |-> "idle", req |-> NoRequest, finalPrice |-> JUndef,
         value |-> <<>>, memo |-> <<>>]

NoBody == [kind |-> "none", error |-> "", code |-> 0, message |-> "",
           invoice |-> <<>>, macaroon |-> <<>>, price |-> JUndef, description |-> <<>>]

ErrorBody(text) == [NoBody EXCEPT !.kind = "error", !.error = text]

\* What one run of the handler did: status 0 and no body when it wrote no
\* response; origin is the LND reply behind the challenge a credential was
\* built from (kind "none" for any other request).
Outcome(req, status, body, wwwAuthenticate, nextCalls, l402, finalPrice, invoiceCalls, lnd, logged, origin) ==
  [seen |-> TRUE, req |-> req, status |-> status, body |-> body,
   wwwAuthenticate |-> wwwAuthenticate, nextCalls |-> nextCalls, l402 |-> l402,
   finalPrice |-> finalPrice, invoiceCalls |-> invoiceCalls, lnd |-> lnd,
   logged |-> logged, origin |-> origin]

NoOutcome ==
  [Outcome(NoRequest, 0, NoBody, <<>>, 0, NoProof, JUndef, 0, NoLndReply, FALSE, NoLndReply)
     EXCEPT !.seen = FALSE]

\* replays is history: how many times, up to MaxReplays, the credential
\* ReplayCredential has been passed to next().
Unbuilt == [built |-> FALSE, price |-> JUndef, priceFn |-> FALSE,
            description |-> JUndef, skipTlsVerify |-> FALSE, replays |-> 0]

\* No client yet: its closure holds maxAutoPaySats, node and tokenCache.
\* given is the maxAutoPaySats of the config, maxAutoPaySats the closure's.
NoClient == [built |-> FALSE, given |-> JUndef, maxAutoPaySats |-> 0, skipTlsVerify |-> FALSE]

\* The helpers applied to inputs of their own: verifyPreimage to preimage and
\* the hash of other; createServiceMacaroon to paymentHash and service at
\* time now, and parseServiceMacaroon to what it returned.
Probe(preimage, other, paymentHash, service, now) ==
  [preimage |-> preimage, other |-> other, paymentHash |-> paymentHash,
   service |-> service, now |-> now,
   verified |-> FALSE, verdict |-> FALSE,
   encoded |-> <<>>,
   parsed |-> FALSE, decoded |-> [ok |-> FALSE, data |-> JUndef]]

NoProbe == Probe(<<>>, <<>>, <<>>, <<>>, 0)

\* new Map(): get(url) is undefined for every url.
EmptyCache == [url \in Targets |-> JUndef]

\* One request as fetch was handed it: where it goes, the init it carries,
\* and NODE_TLS_REJECT_UNAUTHORIZED at that moment.
NetworkCall(to, url, method, body, xCustom, authorization, grpcMacaroon, tls) ==
  [to |-> to, url |-> url, method |-> method, body |-> body, xCustom |-> xCustom,
   authorization |-> authorization, grpcMacaroon |-> grpcMacaroon, tls |-> tls]

NoResult == [data |-> JUndef, paid |-> JUndef, price |-> JUndef, preimage |-> JUndef]

\* A call of client.fetch: pc is "idle" before it is made, then the await
\* it stands at ("first", "pay", "payment", "retry"), then "returned" or
\* "threw".  log is the network calls it has issued, in order, and replies
\* what came back for them.  History kept for the properties: after is the
\* calls that had finished when this one was made, kept those of them whose
\* token had been cached and not cleared since, cached the calls on the same
\* url, finished or not, whose token was in the cache then, stored whether
\* this call's token has been cached and not cleared since.
IdleCall ==
  [pc |-> "idle", url |-> <<>>, options |-> NoOptions, authorization |-> JUndef,
   challenge |-> JUndef, saved |-> "unset", payment |-> JUndef, preimageHex |-> <<>>,
   log |-> <<>>, replies |-> <<>>, result |-> NoResult, error |-> <<>>,
   after |-> {}, kept |-> {}, cached |-> {}, stored |-> FALSE]

ServerInit ==
  /\ mw = Unbuilt
  /\ tlsOrig = "unset"
  /\ tlsEnv = tlsOrig
  /\ pending = Idle
  /\ last = NoOutcome
  /\ client = NoClient
  /\ tokenCache = EmptyCache
  /\ calls = [c \in CallIds |-> IdleCall]
  /\ probe = NoProbe

(***************************************************************************)
(* The middleware (src/middleware.ts)                                      *)
(***************************************************************************)

\* l402(config): keeps the config and, for skipTlsVerify, sets
\* NODE_TLS_REJECT_UNAUTHORIZED for the whole process.
Construct(config) ==
  /\ ~mw.built
  /\ mw' = [built |-> TRUE, price |-> config.price, priceFn |-> config.priceFn,
            description |-> config.description, skipTlsVerify |-> config.skipTlsVerify,
            replays |-> 0]
  /\ tlsEnv' = IF config.skipTlsVerify THEN "0" ELSE tlsEnv
  /\ UNCHANGED <<tlsOrig, pending, last>>
  /\ UNCHANGED clientVars
  /\ UNCHANGED helperVars

\* amount.toString()
NumToString(v) ==
  CASE v.t = "num" -> IntToStr(v.n)
    [] v.t = "nan" -> <<"N", "a", "N">>
    [] OTHER -> <<"I", "n", "f", "i", "n", "i", "t", "y">>

\* description || `L402 access: ${req.method} ${req.path}`
Memo(req) ==
  IF Truthy(mw.description) THEN mw.description.s
  ELSE <<"L", "4", "0", "2", " ", "a", "c", "c", "e", "s", "s", ":", " ">>
       \o req.method \o <<" ">> \o req.path

\* createInvoice up to its await: the POST to LND is sent.
AwaitInvoice(req, finalPrice) ==
  [pc |-> "invoice", req |-> req, finalPrice |-> finalPrice,
   value |-> NumToString(finalPrice), memo |-> Memo(req)]

\* Variant: the proof names the path of the request as its service.
Accepted_PathService(req, l402, origin) ==
  Outcome(req, 0, NoBody, <<>>, 1, [l402 EXCEPT !.service = JStr(req.path)], JUndef, 0,
          NoLndReply, FALSE, origin)

Accepted(req, l402, origin) ==
  Outcome(req, 0, NoBody, <<>>, 1, l402, JUndef, 0, NoLndReply, FALSE, origin)

\* Variant: a credential that has a separator is told so in the body.
Rejected_Telling(req, origin) ==
  Outcome(req, 401,
          ErrorBody(IF LastIndexOf(req.authorization.s, ":") > 5
                      THEN "Invalid preimage" ELSE "Invalid L402 token"),
          <<>>, 0, NoProof, JUndef, 0, NoLndReply, FALSE, origin)

\* Variant: after the 401 the handler falls through to next().
Rejected_CallsNext(req, origin) ==
  Outcome(req, 401, ErrorBody("Invalid L402 token"), <<>>, 1, NoProof, JUndef, 0,
          NoLndReply, FALSE, origin)

Rejected(req, origin) ==
  Outcome(req, 401, ErrorBody("Invalid L402 token"), <<>>, 0, NoProof, JUndef, 0,
          NoLndReply, FALSE, origin)

\* Variant: the 500 body carries the message of the error caught.
Failed_Leaky(req, finalPrice, invoiceCalls, lnd) ==
  Outcome(req, 500,
          ErrorBody(IF lnd.kind = "notok" THEN "LND invoice creation failed"
                    ELSE IF lnd.kind = "throw" THEN "fetch failed"
                    ELSE "Payment gateway error"),
          <<>>, 0, NoProof, finalPrice, invoiceCalls, lnd, TRUE, NoLndReply)

\* The catch clause: console.error, then the fixed 500 body.
Failed(req, finalPrice, invoiceCalls, lnd) ==
  Outcome(req, 500, ErrorBody("Payment gateway error"), <<>>, 0, NoProof, finalPrice,
          invoiceCalls, lnd, TRUE, NoLndReply)

\* Authorize, worked out once for the headers the model's requests carry.
AuthorizeTable == [h \in AuthHeaders \cup ChallengeCredentials |-> Authorize(h)]

Authorized(authHeader) ==
  IF authHeader \in DOMAIN AuthorizeTable
    THEN AuthorizeTable[authHeader]
    ELSE Authorize(authHeader)

\* Variant: a credential is good for one request; presented again right
\* after it was accepted, it is rejected.
Dispatch_OneTime(req, origin, auth) ==
  IF auth.branch = "next" /\ ~(last.seen /\ last.nextCalls = 1
                                 /\ last.req.authorization = req.authorization) THEN
    /\ last' = Accepted(req, auth.l402, origin)
    /\ UNCHANGED pending
  ELSE IF auth.branch \in {"next", "reject"} THEN
    /\ last' = Rejected(req, origin)
    /\ UNCHANGED pending
  ELSE
    /\ pending.pc = "idle"
    /\ pending' = IF mw.priceFn
                    THEN [Idle EXCEPT !.pc = "price", !.req = req]
                    ELSE AwaitInvoice(req, mw.price)
    /\ UNCHANGED last

\* Variant: a credential that fails is answered with a fresh challenge.
Dispatch_Rechallenges(req, origin, auth) ==
  IF auth.branch = "next" THEN
    /\ last' = Accepted(req, auth.l402, origin)
    /\ UNCHANGED pending
  ELSE
    /\ pending.pc = "idle"
    /\ pending' = IF mw.priceFn
                    THEN [Idle EXCEPT !.pc = "price", !.req = req]
                    ELSE AwaitInvoice(req, mw.price)
    /\ UNCHANGED last

\* The handler from its start to its first await, or to its end.  One
\* challenge at a time waits on priceFn or on LND; credentials are checked
\* while it waits.
Dispatch(req, origin, auth) ==
  IF auth.branch = "next" THEN
    /\ last' = Accepted(req, auth.l402, origin)
    /\ UNCHANGED pending
  ELSE IF auth.branch = "reject" THEN
    /\ last' = Rejected(req, origin)
    /\ UNCHANGED pending
  ELSE
    /\ pending.pc = "idle"
    /\ pending' = IF mw.priceFn
                    THEN [Idle EXCEPT !.pc = "price", !.req = req]
                    ELSE AwaitInvoice(req, mw.price)
    /\ UNCHANGED last

\* The presentations of ReplayCredential that went to next() are counted.
Counted(req, auth) ==
  IF auth.branch = "next" /\ req.authorization = ReplayCredential
       /\ mw.replays < MaxReplays
    THEN [mw EXCEPT !.replays = @ + 1]
    ELSE mw

Handle(req, origin) ==
  /\ Dispatch(req, origin, Authorized(req.authorization))
  /\ mw' = Counted(req, Authorized(req.authorization))

\* A request arrives.
Request(req) ==
  /\ mw.built
  /\ Handle(req, NoLndReply)
  /\ UNCHANGED <<tlsEnv, tlsOrig>>
  /\ UNCHANGED clientVars
  /\ UNCHANGED helperVars

\* A request arrives that carries the macaroon of the challenge answered
\* last, with some secret.
Redeem(method, path, secret) ==
  /\ mw.built
  /\ last.seen
  /\ last.status = 402
  /\ Handle([method |-> method, path |-> path,
             authorization |-> Credential(Scheme, last.body.macaroon, secret)],
            last.lnd)
  /\ UNCHANGED <<tlsEnv, tlsOrig>>
  /\ UNCHANGED clientVars
  /\ UNCHANGED helperVars

\* Variant: what priceFn returned is dropped for the static price.
PriceResolved_StaticPrice(result) ==
  /\ pending.pc = "price"
  /\ pending' = AwaitInvoice(pending.req, mw.price)
  /\ UNCHANGED <<mw, tlsEnv, tlsOrig, last>>
  /\ UNCHANGED clientVars
  /\ UNCHANGED helperVars

\* await priceFn(req) comes back with a price.
PriceResolved(result) ==
  /\ pending.pc = "price"
  /\ pending' = AwaitInvoice(pending.req, result)
  /\ UNCHANGED <<mw, tlsEnv, tlsOrig, last>>
  /\ UNCHANGED clientVars
  /\ UNCHANGED helperVars

\* priceFn throws, or the promise it returned rejects.
PriceThrown ==
  /\ pending.pc = "price"
  /\ last' = Failed(pending.req, JUndef, 0, NoLndReply)
  /\ pending' = Idle
  /\ UNCHANGED <<mw, tlsEnv, tlsOrig>>
  /\ UNCHANGED clientVars
  /\ UNCHANGED helperVars

\* Variant: the macaroon carries r_hash as LND sent it, in base64.
Challenge_RawHash(p, lnd, now) ==
  Outcome(p.req, 402,
          [kind |-> "challenge", error |-> "", code |-> 402,
           message |-> "Payment Required", invoice |-> lnd.payment_request,
           macaroon |-> createServiceMacaroon(lnd.r_hash.s, p.req.path, now),
           price |-> p.finalPrice, description |-> p.memo],
          <<>>, 0, NoProof, p.finalPrice, 1, lnd, FALSE, NoLndReply)

\* Variant: the macaroon names the memo of the invoice as its service.
Challenge_MemoService(p, lnd, now) ==
  Outcome(p.req, 402,
          [kind |-> "challenge", error |-> "", code |-> 402,
           message |-> "Payment Required", invoice |-> lnd.payment_request,
           macaroon |-> createServiceMacaroon(HexEncode(Base64Decode(lnd.r_hash.s)),
                                              p.memo, now),
           price |-> p.finalPrice, description |-> p.memo],
          <<"L", "4", "0", "2", " ", "m", "a", "c", "a", "r", "o", "o", "n", "=", "\"">>
            \o createServiceMacaroon(HexEncode(Base64Decode(lnd.r_hash.s)), p.memo, now)
            \o <<"\"", ",", " ", "i", "n", "v", "o", "i", "c", "e", "=", "\"">>
            \o lnd.payment_request \o <<"\"">>,
          0, NoProof, p.finalPrice, 1, lnd, FALSE, NoLndReply)

\* The 402 response for LND's invoice.
Challenge(p, lnd, now) ==
  LET paymentHashHex == HexEncode(Base64Decode(lnd.r_hash.s))
      serviceMacaroon == createServiceMacaroon(paymentHashHex, p.req.path, now)
  IN Outcome(p.req, 402,
             [kind |-> "challenge", error |-> "", code |-> 402,
              message |-> "Payment Required", invoice |-> lnd.payment_request,
              macaroon |-> serviceMacaroon, price |-> p.finalPrice,
              description |-> p.memo],
             <<"L", "4", "0", "2", " ", "m", "a", "c", "a", "r", "o", "o", "n", "=", "\"">>
               \o serviceMacaroon
               \o <<"\"", ",", " ", "i", "n", "v", "o", "i", "c", "e", "=", "\"">>
               \o lnd.payment_request \o <<"\"">>,
             0, NoProof, p.finalPrice, 1, lnd, FALSE, NoLndReply)

\* The POST to LND comes back: createInvoice throws unless the status is OK,
\* and Buffer.from(undefined, 'base64') throws for a body with no r_hash.
InvoiceResolved(lnd, now) ==
  /\ pending.pc = "invoice"
  /\ last' = IF lnd.kind = "ok" /\ lnd.r_hash.t = "str"
               THEN Challenge(pending, lnd, now)
               ELSE Failed(pending.req, pending.finalPrice, 1, lnd)
  /\ pending' = Idle
  /\ UNCHANGED <<mw, tlsEnv, tlsOrig>>
  /\ UNCHANGED clientVars
  /\ UNCHANGED helperVars

ServerNext ==
  \/ \E config \in Configs : Construct(config)
  \/ \E req \in Requests : Request(req)
  \/ \E method \in Methods, path \in Paths, secret \in Secrets : Redeem(method, path, secret)
  \/ \E result \in PriceFnResults : PriceResolved(result)
  \/ PriceThrown
  \/ \E lnd \in LndReplies, now \in 1..MaxClock : InvoiceResolved(lnd, now)

ServerSpec == ServerInit /\ [][ServerNext]_vars

(***************************************************************************)
(* The client (src/client.ts) and lndFetch (src/lnd-fetch.ts)              *)
(***************************************************************************)

ClientInit ==
  /\ mw = Unbuilt
  /\ pending = Idle
  /\ last = NoOutcome
  /\ tlsOrig \in {"unset", "1"}
  /\ tlsEnv = tlsOrig
  /\ client = NoClient
  /\ tokenCache = EmptyCache
  /\ calls = [c \in CallIds |-> IdleCall]
  /\ probe = NoProbe

\* createL402Client(config): the default of maxAutoPaySats, and a new Map.
CreateClient(config) ==
  /\ ~client.built
  /\ client' = [built |-> TRUE,
                given |-> config.maxAutoPaySats,
                maxAutoPaySats |-> IF config.maxAutoPaySats.t = "undef"
                                     THEN DefaultMaxAutoPaySats
                                     ELSE config.maxAutoPaySats.n,
                skipTlsVerify |-> config.skipTlsVerify]
  /\ tokenCache' = EmptyCache
  /\ UNCHANGED <<tlsEnv, tlsOrig, calls>>
  /\ UNCHANGED serverVars
  /\ UNCHANGED helperVars

\* cacheSize(): tokenCache.size
cacheSize == Cardinality({url \in Targets : tokenCache[url].t # "undef"})

\* Variant: clearCache() leaves the entries where they are.
ClearCache_Keeps ==
  /\ client.built
  /\ calls' = [c \in CallIds |-> [calls[c] EXCEPT !.stored = FALSE]]
  /\ UNCHANGED <<tlsEnv, tlsOrig, client, tokenCache>>
  /\ UNCHANGED serverVars
  /\ UNCHANGED helperVars

\* clearCache(): tokenCache.clear(), at any moment between two steps of the
\* calls in flight.
ClearCache ==
  /\ client.built
  /\ tokenCache' = EmptyCache
  /\ calls' = [c \in CallIds |-> [calls[c] EXCEPT !.stored = FALSE]]
  /\ UNCHANGED <<tlsEnv, tlsOrig, client>>
  /\ UNCHANGED serverVars
  /\ UNCHANGED helperVars

\* { ...options.headers }: the own enumerable properties of what the caller
\* passed; a Headers instance has none for the headers it holds.
SpreadHeader(options) ==
  IF options.headersAs = "record" THEN options.xCustom ELSE JUndef

\* fetch(url, {...options, headers}) with the Authorization header given.
TargetCall(url, options, authorization) ==
  NetworkCall("target", url, options.method, options.body, SpreadHeader(options),
              authorization, JUndef, tlsEnv)

\* The fetch inside lndFetch, as payInvoice asks for it.
LndCall(invoice) ==
  NetworkCall("lnd",
              RestHost \o <<"/", "v", "1", "/", "c", "h", "a", "n", "n", "e", "l", "s", "/", "t", "r", "a", "n", "s", "a", "c", "t", "i", "o", "n", "s">>,
              JStr(<<"P", "O", "S", "T">>),
              JStr(JSONStringify(JObj(<< <<KeyPaymentRequest, invoice>> >>))),
              JUndef, JUndef, JStr(NodeMacaroon),
              IF client.skipTlsVerify THEN "0" ELSE tlsEnv)

\* What came back for a network call is noted.
Got(call, reply) == [call EXCEPT !.replies = Append(@, reply)]

Threw(call, message) == [call EXCEPT !.pc = "threw", !.error = message]

Returned(call, data, paid, price, preimage) ==
  [call EXCEPT !.pc = "returned",
               !.result = [data |-> data, paid |-> paid, price |-> price,
                           preimage |-> preimage]]

\* The messages of the errors, as pieces of text around the values they name.
FetchFailed == <<"fetch failed">>
ExceedsMessage(price, maxAutoPaySats) ==
  <<"L402 price (">> \o JsToString(price) \o <<" sats) exceeds maxAutoPaySats (">>
    \o IntToStr(maxAutoPaySats) \o <<"). ", "Increase the limit or pay manually.">>
LndPaymentFailed == <<"LND payment failed: ", "5", "0", "0", " ", "Internal Server Error">>
PaymentFailed(payment_error) ==
  <<"Lightning payment failed: ">> \o JsToString(payment_error)
NotAString == <<"TypeError">>
SyntaxError == <<"SyntaxError">>

\* l402Fetch up to its first await: the cached token, if there is one, goes
\* into the headers and the request is sent.
Started(url, options, authorization) ==
  [IdleCall EXCEPT !.pc = "first", !.url = url, !.options = options,
                   !.authorization = authorization,
                   !.log = <<TargetCall(url, options, authorization)>>,
                   !.after = {d \in CallIds : calls[d].pc \in {"returned", "threw"}},
                   !.kept = {d \in CallIds : calls[d].pc \in {"returned", "threw"}
                                               /\ calls[d].stored},
                   !.cached = {d \in CallIds : calls[d].stored /\ calls[d].url = url}]

\* Variant: the cache is not looked up.
Fetch_NoLookup(c, url, options) ==
  /\ client.built
  /\ calls[c].pc = "idle"
  /\ (c = "c2") => (calls["c1"].pc # "idle")
  /\ calls' = [calls EXCEPT ![c] = Started(url, options, JUndef)]
  /\ UNCHANGED <<tlsEnv, tlsOrig, client, tokenCache>>
  /\ UNCHANGED serverVars
  /\ UNCHANGED helperVars

\* Variant: the cache is keyed by the target and the options of the call.
Fetch_KeyedByOptions(c, url, options) ==
  /\ client.built
  /\ calls[c].pc = "idle"
  /\ (c = "c2") => (calls["c1"].pc # "idle")
  /\ calls' = [calls EXCEPT ![c] =
                 Started(url, options,
                         IF Truthy(tokenCache[url])
                              /\ \A d \in CallIds :
                                   (calls[d].stored /\ calls[d].url = url)
                                     => calls[d].options = options
                         THEN tokenCache[url] ELSE JUndef)]
  /\ UNCHANGED <<tlsEnv, tlsOrig, client, tokenCache>>
  /\ UNCHANGED serverVars
  /\ UNCHANGED helperVars

\* Variant: the cache holds one credential, whatever the target.
Fetch_OneSlot(c, url, options) ==
  /\ client.built
  /\ calls[c].pc = "idle"
  /\ (c = "c2") => (calls["c1"].pc # "idle")
  /\ calls' = [calls EXCEPT ![c] =
                 Started(url, options,
                         IF Truthy(tokenCache[TargetA]) THEN tokenCache[TargetA] ELSE JUndef)]
  /\ UNCHANGED <<tlsEnv, tlsOrig, client, tokenCache>>
  /\ UNCHANGED serverVars
  /\ UNCHANGED helperVars

Fetch(c, url, options) ==
  /\ client.built
  /\ calls[c].pc = "idle"
  /\ (c = "c2") => (calls["c1"].pc # "idle")
  /\ calls' = [calls EXCEPT ![c] =
                 Started(url, options,
                         IF Truthy(tokenCache[url]) THEN tokenCache[url] ELSE JUndef)]
  /\ UNCHANGED <<tlsEnv, tlsOrig, client, tokenCache>>
  /\ UNCHANGED serverVars
  /\ UNCHANGED helperVars

\* payInvoice up to the await in lndFetch: with skipTlsVerify the variable
\* is saved and set to '0', then the POST is sent.
Paying(call, challenge) ==
  [call EXCEPT !.pc = "pay", !.challenge = challenge,
               !.saved = IF client.skipTlsVerify THEN tlsEnv ELSE "unset",
               !.log = Append(@, LndCall(GetProp(challenge, KeyInvoice)))]

\* Variant: a cached credential that the server answers with 401 is dropped
\* from the cache.
FirstResponse_DropStale(c, res) ==
  /\ calls[c].pc = "first"
  /\ IF res.kind = "throw" THEN
       /\ calls' = [calls EXCEPT ![c] = Threw(Got(@, res), FetchFailed)]
       /\ UNCHANGED tlsEnv
     ELSE IF ~IsJson(res.body) THEN
       /\ calls' = [calls EXCEPT ![c] = Threw(Got(@, res), SyntaxError)]
       /\ UNCHANGED tlsEnv
     ELSE IF res.status # 402 THEN
       /\ calls' = [calls EXCEPT ![c] =
                      Returned(Got(@, res), res.body, JBool(FALSE), JUndef, JUndef)]
       /\ UNCHANGED tlsEnv
     ELSE IF JsGreater(GetProp(res.body, KeyPrice), client.maxAutoPaySats) THEN
       /\ calls' = [calls EXCEPT ![c] =
                      Threw(Got(@, res), ExceedsMessage(GetProp(res.body, KeyPrice),
                                                        client.maxAutoPaySats))]
       /\ UNCHANGED tlsEnv
     ELSE
       /\ calls' = [calls EXCEPT ![c] = Paying(Got(@, res), res.body)]
       /\ tlsEnv' = IF client.skipTlsVerify THEN "0" ELSE tlsEnv
  /\ tokenCache' = IF res.kind = "response" /\ res.status = 401
                   THEN [tokenCache EXCEPT ![calls[c].url] = JUndef]
                   ELSE tokenCache
  /\ UNCHANGED <<tlsOrig, client>>
  /\ UNCHANGED serverVars
  /\ UNCHANGED helperVars

\* The first response and its body arrive.
FirstResponse(c, res) ==
  /\ calls[c].pc = "first"
  /\ IF res.kind = "throw" THEN
       /\ calls' = [calls EXCEPT ![c] = Threw(Got(@, res), FetchFailed)]
       /\ UNCHANGED tlsEnv
     ELSE IF ~IsJson(res.body) THEN
       /\ calls' = [calls EXCEPT ![c] = Threw(Got(@, res), SyntaxError)]
       /\ UNCHANGED tlsEnv
     ELSE IF res.status # 402 THEN
       /\ calls' = [calls EXCEPT ![c] =
                      Returned(Got(@, res), res.body, JBool(FALSE), JUndef, JUndef)]
       /\ UNCHANGED tlsEnv
     ELSE IF JsGreater(GetProp(res.body, KeyPrice), client.maxAutoPaySats) THEN
       /\ calls' = [calls EXCEPT ![c] =
                      Threw(Got(@, res), ExceedsMessage(GetProp(res.body, KeyPrice),
                                                        client.maxAutoPaySats))]
       /\ UNCHANGED tlsEnv
     ELSE
       /\ calls' = [calls EXCEPT ![c] = Paying(Got(@, res), res.body)]
       /\ tlsEnv' = IF client.skipTlsVerify THEN "0" ELSE tlsEnv
  /\ UNCHANGED <<tlsOrig, client, tokenCache>>
  /\ UNCHANGED serverVars
  /\ UNCHANGED helperVars

\* Variant: the variable is put back after the await, with no finally.
PaySettled_NoFinally(c, reply) ==
  /\ calls[c].pc = "pay"
  /\ tlsEnv' = IF client.skipTlsVerify /\ reply.kind # "throw"
                THEN calls[c].saved ELSE tlsEnv
  /\ calls' = [calls EXCEPT ![c] =
                 IF reply.kind = "throw" THEN Threw(Got(@, reply), FetchFailed)
                 ELSE IF ~reply.ok THEN Threw(Got(@, reply), LndPaymentFailed)
                 ELSE [Got(@, reply) EXCEPT !.pc = "payment", !.payment = reply.body]]
  /\ UNCHANGED <<tlsOrig, client, tokenCache>>
  /\ UNCHANGED serverVars
  /\ UNCHANGED helperVars

\* The POST to LND settles: the finally of lndFetch puts the variable back,
\* then payInvoice throws unless the status is OK.
PaySettled(c, reply) ==
  /\ calls[c].pc = "pay"
  /\ tlsEnv' = IF client.skipTlsVerify THEN calls[c].saved ELSE tlsEnv
  /\ calls' = [calls EXCEPT ![c] =
                 IF reply.kind = "throw" THEN Threw(Got(@, reply), FetchFailed)
                 ELSE IF ~reply.ok THEN Threw(Got(@, reply), LndPaymentFailed)
                 ELSE [Got(@, reply) EXCEPT !.pc = "payment", !.payment = reply.body]]
  /\ UNCHANGED <<tlsOrig, client, tokenCache>>
  /\ UNCHANGED serverVars
  /\ UNCHANGED helperVars

\* The token is cached, then the request is sent again with it.
RetryWith(c, call, preimageHex, l402Token) ==
  /\ tokenCache' = [tokenCache EXCEPT ![call.url] = l402Token]
  /\ calls' = [calls EXCEPT ![c] =
                 [call EXCEPT !.pc = "retry", !.preimageHex = preimageHex,
                              !.stored = TRUE,
                              !.log = Append(@, TargetCall(call.url, call.options, l402Token))]]

\* Variant: the preimage goes into the token as LND sent it, in base64.
Retry_Base64(c, call, preimageHex) ==
  RetryWith(c, call, preimageHex,
            JStr(Scheme \o JsToString(GetProp(call.challenge, KeyMacaroon))
                   \o <<":">> \o GetProp(call.payment, KeyPaymentPreimage).s))

Retry(c, call, preimageHex) ==
  RetryWith(c, call, preimageHex,
            JStr(Scheme \o JsToString(GetProp(call.challenge, KeyMacaroon))
                   \o <<":">> \o preimageHex))

\* Variant: payment_error is not looked at.
PaymentParsed_IgnoreError(c) ==
  /\ calls[c].pc = "payment"
  /\ Retry(c, calls[c],
           HexEncode(Base64Decode(GetProp(calls[c].payment, KeyPaymentPreimage).s)))
  /\ UNCHANGED <<tlsEnv, tlsOrig, client>>
  /\ UNCHANGED serverVars
  /\ UNCHANGED helperVars

\* The body of LND's answer arrives.
PaymentParsed(c) ==
  /\ calls[c].pc = "payment"
  /\ IF Truthy(GetProp(calls[c].payment, KeyPaymentError)) THEN
       /\ calls' = [calls EXCEPT ![c] =
                      Threw(@, PaymentFailed(GetProp(calls[c].payment, KeyPaymentError)))]
       /\ UNCHANGED tokenCache
     ELSE IF GetProp(calls[c].payment, KeyPaymentPreimage).t # "str" THEN
       /\ calls' = [calls EXCEPT ![c] = Threw(@, NotAString)]
       /\ UNCHANGED tokenCache
     ELSE
       Retry(c, calls[c],
             HexEncode(Base64Decode(GetProp(calls[c].payment, KeyPaymentPreimage).s)))
  /\ UNCHANGED <<tlsEnv, tlsOrig, client>>
  /\ UNCHANGED serverVars
  /\ UNCHANGED helperVars

\* Variant: a retry answered with 402 is paid for again, up to a fifth
\* network call.
RetryResponse_PaysAgain(c, res) ==
  /\ calls[c].pc = "retry"
  /\ IF res.kind = "response" /\ IsJson(res.body) /\ res.status = 402
        /\ Len(calls[c].log) < 5 THEN
       /\ calls' = [calls EXCEPT ![c] = Paying(Got(@, res), res.body)]
       /\ tlsEnv' = IF client.skipTlsVerify THEN "0" ELSE tlsEnv
     ELSE
       /\ calls' = [calls EXCEPT ![c] =
                      IF res.kind = "throw" THEN Threw(Got(@, res), FetchFailed)
                      ELSE IF ~IsJson(res.body) THEN Threw(Got(@, res), SyntaxError)
                      ELSE Returned(Got(@, res), res.body, JBool(TRUE),
                                    GetProp(calls[c].challenge, KeyPrice),
                                    JStr(calls[c].preimageHex))]
       /\ UNCHANGED tlsEnv
  /\ UNCHANGED <<tlsOrig, client, tokenCache>>
  /\ UNCHANGED serverVars
  /\ UNCHANGED helperVars

\* The second response and its body arrive.
RetryResponse(c, res) ==
  /\ calls[c].pc = "retry"
  /\ calls' = [calls EXCEPT ![c] =
                 IF res.kind = "throw" THEN Threw(Got(@, res), FetchFailed)
                 ELSE IF ~IsJson(res.body) THEN Threw(Got(@, res), SyntaxError)
                 ELSE Returned(Got(@, res), res.body, JBool(TRUE),
                               GetProp(calls[c].challenge, KeyPrice),
                               JStr(calls[c].preimageHex))]
  /\ UNCHANGED <<tlsEnv, tlsOrig, client, tokenCache>>
  /\ UNCHANGED serverVars
  /\ UNCHANGED helperVars

ClientNext ==
  \/ \E config \in ClientConfigs : CreateClient(config)
  \/ \E c \in CallIds : \E input \in CallInputs(c) : Fetch(c, input[1], input[2])
  \/ \E c \in CallIds : \E res \in FirstResponses(c, calls[c].url) : FirstResponse(c, res)
  \/ \E c \in CallIds : \E reply \in PaymentReplies(c) : PaySettled(c, reply)
  \/ \E c \in CallIds : PaymentParsed(c)
  \/ \E c \in CallIds : \E res \in RetryResponses(c, calls[c].url) : RetryResponse(c, res)
  \/ ClearCache

ClientSpec == ClientInit /\ [][ClientNext]_vars

\* What call c awaits arrives and its continuation runs: the response to
\* the first request, the response of LND, its body, the response to the
\* retry.
Completes(c) ==
  \/ \E res \in FirstResponses(c, calls[c].url) : FirstResponse(c, res)
  \/ \E reply \in PaymentReplies(c) : PaySettled(c, reply)
  \/ PaymentParsed(c)
  \/ \E res \in RetryResponses(c, calls[c].url) : RetryResponse(c, res)

\* One invocation of client.fetch on a client, clearCache() at any moment.
FetchNext ==
  \/ \E config \in ClientConfigs : CreateClient(config)
  \/ \E input \in CallInputs("c1") : Fetch("c1", input[1], input[2])
  \/ Completes("c1")
  \/ ClearCache

\* The invocation with every network call completing: each fetch settles,
\* one way or the other, and the event loop runs the continuation waiting
\* on it.
ClientLiveSpec == ClientInit /\ [][FetchNext]_vars /\ WF_vars(Completes("c1"))

(***************************************************************************)
(* The helpers of src/index.ts on their own                                *)
(***************************************************************************)

\* Preimages as they come in a credential: hex of one and two bytes, in
\* upper case, followed by what is no hex, with an odd digit at the end,
\* no hex at all, and empty.
HexSecrets ==
  {PreimageA, PreimageB, <<"A", "B">>, <<"a", "b", "z", "z">>, <<"a", "b", "c">>,
   <<"a", "b", "c", "d">>, <<"z", "z">>, <<>>}

\* req.path: plain, with characters JSON escapes, and with one outside ASCII.
Services ==
  {PathA, <<"/", "\"", "\\">>, <<"/", ReplacementChar, "x">>}

HelperInit ==
  /\ mw = Unbuilt
  /\ tlsOrig = "unset"
  /\ tlsEnv = tlsOrig
  /\ pending = Idle
  /\ last = NoOutcome
  /\ client = NoClient
  /\ tokenCache = EmptyCache
  /\ calls = [c \in CallIds |-> IdleCall]
  /\ \E preimage \in HexSecrets, other \in HexSecrets, service \in Services,
        now \in 1..MaxClock :
       probe = Probe(preimage, other, PreimageHash(other), service, now)

\* verifyPreimage(preimage, paymentHash), paymentHash the hash of other.
VerifyPreimage ==
  /\ ~probe.verified
  /\ probe' = [probe EXCEPT !.verified = TRUE,
                            !.verdict = verifyPreimage(probe.preimage,
                                                       JStr(PreimageHash(probe.other)))]
  /\ UNCHANGED <<serverVars, clientVars, tlsEnv, tlsOrig>>

\* createServiceMacaroon(paymentHash, service), Date.now() being now.
CreateMacaroon ==
  /\ probe.encoded = <<>>
  /\ probe' = [probe EXCEPT !.encoded = createServiceMacaroon(probe.paymentHash,
                                                              probe.service, probe.now)]
  /\ UNCHANGED <<serverVars, clientVars, tlsEnv, tlsOrig>>

\* parseServiceMacaroon of the macaroon created.
ParseMacaroon ==
  /\ probe.encoded # <<>>
  /\ ~probe.parsed
  /\ probe' = [probe EXCEPT !.parsed = TRUE,
                            !.decoded = parseServiceMacaroon(probe.encoded)]
  /\ UNCHANGED <<serverVars, clientVars, tlsEnv, tlsOrig>>

HelperNext ==
  \/ VerifyPreimage
  \/ CreateMacaroon
  \/ ParseMacaroon

HelperSpec == HelperInit /\ [][HelperNext]_vars

(***************************************************************************)
(* Server claims.  The parts of a credential are read off the header with  *)
(* the primitives, apart from Authorize.                                   *)
(***************************************************************************)

\* The header of the request handled last.
LastHeader == last.req.authorization

\* It starts with the scheme keyword, in any letter case, and a space.
HasScheme(h) == h.t = "str" /\ StartsWith(ToLowerCase(h.s), SchemePrefix)

\* What follows the scheme, and the 1-based position of its last colon (0: none).
CredentialValue(h) == SubSeq(h.s, 6, Len(h.s))
LastColon(value) ==
  IF \E i \in 1..Len(value) : value[i] = ":"
    THEN CHOOSE i \in 1..Len(value) : value[i] = ":" /\ \A j \in (i + 1)..Len(value) : value[j] # ":"
    ELSE 0
TokenHalf(h) == SubSeq(CredentialValue(h), 1, LastColon(CredentialValue(h)) - 1)
SecretHalf(h) ==
  SubSeq(CredentialValue(h), LastColon(CredentialValue(h)) + 1, Len(CredentialValue(h)))

\* The JSON document a token decodes to, and whether it is a macaroon: an
\* object (or other non-null value) with a truthy version and paymentHash.
TokenJSON(token) == JSONParse(Utf8Decode(Base64Decode(token)))
IsMacaroon(token) ==
  /\ TokenJSON(token).ok
  /\ TokenJSON(token).v.t # "null"
  /\ Truthy(GetProp(TokenJSON(token).v, KeyVersion))
  /\ Truthy(GetProp(TokenJSON(token).v, KeyPaymentHash))

\* sha256 of the hex-decoded secret, as lower-case hex.
Commit(secret) == HexEncode(Sha256(HexDecode(secret)))

\* A credential with a token half that is a macaroon.
WellFormed(h) ==
  /\ HasScheme(h)
  /\ LastColon(CredentialValue(h)) > 1
  /\ IsMacaroon(TokenHalf(h))

\* The token half is no macaroon: not JSON once decoded, or JSON with no
\* version or no paymentHash.
LacksField(token) ==
  \/ ~TokenJSON(token).ok
  \/ GetProp(TokenJSON(token).v, KeyVersion).t = "undef"
  \/ GetProp(TokenJSON(token).v, KeyPaymentHash).t = "undef"

Malformed(h) ==
  /\ HasScheme(h)
  /\ \/ LastColon(CredentialValue(h)) = 0
     \/ LastColon(CredentialValue(h)) = 1
     \/ LacksField(TokenHalf(h))

\* What the claims ask of a header, worked out once for the headers the
\* model's requests carry.
Facts(h) ==
  LET scheme == HasScheme(h)
      wellFormed == WellFormed(h)
      token == IF scheme THEN TokenHalf(h) ELSE <<>>
      secret == IF scheme THEN SecretHalf(h) ELSE <<>>
      commit == Commit(secret)
      json == TokenJSON(token)
      paymentHash == IF json.ok THEN GetProp(json.v, KeyPaymentHash) ELSE JUndef
  IN  [scheme |-> scheme,
       wellFormed |-> wellFormed,
       satisfies |-> wellFormed /\ paymentHash.t = "str" /\ commit = paymentHash.s,
       malformed |-> Malformed(h),
       innerColon |-> wellFormed /\ \E i \in 1..Len(token) : token[i] = ":",
       versionOnlyMissing |->
         /\ scheme
         /\ LastColon(CredentialValue(h)) > 1
         /\ json.ok
         /\ GetProp(json.v, KeyVersion).t = "undef"
         /\ paymentHash = JStr(commit),
       secret |-> secret,
       commit |-> commit,
       paymentHash |-> IF wellFormed THEN paymentHash ELSE JUndef,
       service |-> IF wellFormed THEN GetProp(json.v, KeyService) ELSE JUndef]

FactsTable == [h \in AuthHeaders \cup ChallengeCredentials |-> Facts(h)]

FactsOf(h) == IF h \in DOMAIN FactsTable THEN FactsTable[h] ELSE Facts(h)

LastFacts == FactsOf(LastHeader)

\* C1: a request whose credential splits at its last colon into a macaroon
\* and a secret that hashes to the macaroon's paymentHash is passed to
\* next() exactly once, with no status or body written and with
\* req.l402 = {paid: true, preimage, paymentHash, service} from the secret
\* and the token.
C1_ValidCredentialAccepted ==
  (last.seen /\ LastFacts.satisfies)
    => /\ last.nextCalls = 1
       /\ last.status = 0
       /\ last.body = NoBody
       /\ last.l402 = [present |-> TRUE, paid |-> TRUE,
                       preimage |-> LastFacts.secret,
                       paymentHash |-> LastFacts.paymentHash,
                       service |-> LastFacts.service]

\* C1 witness: a credential with a colon inside its token half was accepted.
C1_Witness ==
  /\ last.seen
  /\ LastFacts.satisfies
  /\ LastFacts.innerColon
  /\ last.nextCalls = 1

\* C2: a credential whose secret does not hash to the paymentHash of its
\* token is answered 401 {error: 'Invalid L402 token'}; next() is not
\* called and no req.l402 is attached.
C2_WrongSecretRejected ==
  (last.seen /\ LastFacts.wellFormed /\ ~LastFacts.satisfies)
    => /\ last.status = 401
       /\ last.body = ErrorBody("Invalid L402 token")
       /\ last.nextCalls = 0
       /\ ~last.l402.present

\* C2 witness: the other preimage was presented with a macaroon.
C2_Witness ==
  /\ last.seen
  /\ LastFacts.wellFormed /\ ~LastFacts.satisfies
  /\ LastFacts.secret = PreimageB
  /\ last.status = 401

\* C3: every proof attached to a request satisfies
\* sha256(hex-decoded preimage) = paymentHash.
C3_ProofCommits ==
  last.l402.present
    => /\ last.l402.paymentHash.t = "str"
       /\ Commit(last.l402.preimage) = last.l402.paymentHash.s

\* C3 witness: a proof is attached, after an earlier request was answered
\* with the challenge it redeems.
C3_Witness == last.l402.present /\ last.origin.kind = "ok"

\* C4: a request with no Authorization header, or one that does not start
\* with the L402 scheme, never reaches next(); with a valid price and an
\* invoice from the backend it is answered 402 with a challenge body.
C4_NoCredentialChallenged ==
  (last.seen /\ ~LastFacts.scheme)
    => /\ last.nextCalls = 0
       /\ ~last.l402.present
       /\ last.status \in {402, 500}
       /\ (/\ last.finalPrice.t = "num" /\ last.finalPrice.n > 0
           /\ last.lnd.kind = "ok" /\ last.lnd.r_hash.t = "str")
            => (last.status = 402 /\ last.body.kind = "challenge")

\* C4 witness: a request with a Bearer header got a challenge.
C4_Witness ==
  /\ last.seen
  /\ LastHeader = JStr(Bearer)
  /\ last.status = 402
  /\ last.body.kind = "challenge"

\* C5: a malformed credential (no colon, colon first, a token that is no
\* base64 JSON, or one with no version or no paymentHash) is answered 401,
\* never passed to next() and never answered with a 402 challenge.
C5_MalformedRejected ==
  (last.seen /\ LastFacts.malformed)
    => /\ last.status = 401
       /\ last.nextCalls = 0
       /\ last.body.kind # "challenge"

\* C5 witness: a token with a paymentHash and no version, presented with
\* the preimage of that hash, was rejected.
C5_Witness ==
  /\ last.seen
  /\ LastFacts.versionOnlyMissing
  /\ last.status = 401

ValidPrice(price) == price.t = "num" /\ price.n > 0

\* C6: with a computed price that is zero, negative, NaN or infinite, the
\* answer is 500 {error: 'Payment gateway error'}, no invoice-creation call
\* is made, and no 402 challenge carries that price.
C6_InvalidPriceFails ==
  /\ (pending.pc = "invoice") => ValidPrice(pending.finalPrice)
  /\ (last.seen /\ last.finalPrice.t # "undef" /\ ~ValidPrice(last.finalPrice))
       => /\ last.status = 500
          /\ last.body = ErrorBody("Payment gateway error")
          /\ last.invoiceCalls = 0

\* C7: when invoice creation fails (the call to the backend throws, or its
\* status is not OK) the answer is 500 with the fixed body
\* {error: 'Payment gateway error'}, next() is not called and no challenge
\* is emitted.
C7_BackendFailureHidden ==
  (last.seen /\ last.lnd.kind \in {"throw", "notok"})
    => /\ last.status = 500
       /\ last.body = ErrorBody("Payment gateway error")
       /\ last.wwwAuthenticate = <<>>
       /\ last.nextCalls = 0

\* C7 witness: LND answered with a status that is not OK.
C7_Witness == last.seen /\ last.lnd.kind = "notok" /\ last.status = 500

\* C8: a credential made of the macaroon of a 402 challenge of this
\* middleware and a secret that hashes to the payment hash of that
\* challenge's invoice is accepted: next() once, paid, paymentHash = H.
C8_IssueThenRedeem ==
  (/\ last.seen
   /\ last.origin.kind = "ok"
   /\ LastFacts.commit = HexEncode(Base64Decode(last.origin.r_hash.s)))
    => /\ last.nextCalls = 1
       /\ last.status = 0
       /\ last.l402.present /\ last.l402.paid
       /\ last.l402.paymentHash = JStr(HexEncode(Base64Decode(last.origin.r_hash.s)))

\* C8 witness: the challenge of one invoice was redeemed with its preimage.
C8_Witness ==
  /\ last.seen
  /\ last.origin.kind = "ok"
  /\ last.origin.r_hash = JStr(RHashOf(PreimageB))
  /\ LastFacts.secret = PreimageB
  /\ last.nextCalls = 1

(***************************************************************************)
(* Client claims                                                           *)
(***************************************************************************)

\* The ceiling a client was configured with: 10000 when none was given.
Ceiling == IF client.given.t = "undef" THEN 10000 ELSE client.given.n

\* The call got a 402 for its first request.
GotFirst402(c) ==
  /\ Len(calls[c].replies) >= 1
  /\ calls[c].replies[1].kind = "response"
  /\ calls[c].replies[1].status = 402

\* The call got a 402 for its first request, with a number for a price.
GotChallenge(c) ==
  /\ GotFirst402(c)
  /\ GetProp(calls[c].replies[1].body, KeyPrice).t = "num"
PriceAsked(c) == GetProp(calls[c].replies[1].body, KeyPrice).n

\* How many of the network calls of a call went to LND, and to the target.
CallsTo(c, to) == Cardinality({i \in 1..Len(calls[c].log) : calls[c].log[i].to = to})

\* The text holds the decimal digits of k, with no digit before or after.
Names(text, k) ==
  \E i \in 1..Len(text) :
    /\ i + Len(IntToStr(k)) - 1 <= Len(text)
    /\ SubSeq(text, i, i + Len(IntToStr(k)) - 1) = IntToStr(k)
    /\ (i > 1) => ~IsDigit(text[i - 1])
    /\ (i + Len(IntToStr(k)) <= Len(text)) => ~IsDigit(text[i + Len(IntToStr(k))])

\* C9: a call that gets a 402 challenge with a price above the configured
\* maxAutoPaySats (10000 when none is configured) makes no settlement call
\* and no retry, and rejects with an error that names the price and the
\* ceiling.
C9_AboveCeilingNotPaid ==
  \A c \in CallIds :
    (GotChallenge(c) /\ PriceAsked(c) > Ceiling)
      => /\ calls[c].pc = "threw"
         /\ CallsTo(c, "lnd") = 0
         /\ CallsTo(c, "target") = 1
         /\ Names(calls[c].error, PriceAsked(c))
         /\ Names(calls[c].error, Ceiling)

\* C9 witness: with no ceiling configured a challenge for 10001 was refused.
C9_Witness ==
  \E c \in CallIds :
    /\ GotChallenge(c)
    /\ client.given.t = "undef"
    /\ PriceAsked(c) = 10001
    /\ calls[c].pc = "threw"

\* LND answered OK, with no payment_error.
Settled(c) ==
  /\ Len(calls[c].replies) >= 2
  /\ calls[c].replies[2].kind = "response"
  /\ calls[c].replies[2].ok
  /\ ~Truthy(GetProp(calls[c].replies[2].body, KeyPaymentError))

AutoPaid(c) ==
  /\ GotFirst402(c)
  /\ Settled(c)
  /\ Len(calls[c].replies) = 3
  /\ calls[c].replies[3].kind = "response"

\* The hex of the preimage in LND's answer to the call.
RevealedHex(c) ==
  HexEncode(Base64Decode(GetProp(calls[c].replies[2].body, KeyPaymentPreimage).s))

Follows(c, d) ==
  /\ d \in calls[c].kept
  /\ AutoPaid(d)
  /\ calls[d].url = calls[c].url

Reported(c) ==
  /\ calls[c].replies[2].kind = "response"
  /\ calls[c].replies[2].ok
  /\ GetProp(calls[c].replies[2].body, KeyPaymentError).t = "str"
  /\ GetProp(calls[c].replies[2].body, KeyPaymentError).s # <<>>
SettlementFailed(c) ==
  /\ Len(calls[c].replies) >= 2
  /\ \/ calls[c].replies[2].kind = "throw"
     \/ ~calls[c].replies[2].ok
     \/ Reported(c)

EndsWith(text, tail) ==
  /\ Len(tail) <= Len(text)
  /\ SubSeq(text, Len(text) - Len(tail) + 1, Len(text)) = tail

\* C13: when settlement fails the call rejects, with the reason LND
\* reported, verbatim, when it reported one; it sends no retry and no
\* second settlement call, and the cache holds no entry made by this call.
\* (A reported payment_error is thrown once the body of LND's answer has
\* been read: until then the call stands at that await.)
C13_FailedSettlementAborts ==
  \A c \in CallIds :
    SettlementFailed(c)
      => /\ calls[c].pc \in {"payment", "threw"}
         /\ (calls[c].pc = "payment") => Reported(c)
         /\ (calls[c].pc = "threw") => calls[c].error # <<>>
         /\ (calls[c].pc = "threw" /\ Reported(c))
              => EndsWith(calls[c].error,
                          GetProp(calls[c].replies[2].body, KeyPaymentError).s)
         /\ Len(calls[c].log) = 2
         /\ CallsTo(c, "lnd") = 1
         /\ CallsTo(c, "target") = 1
         /\ ~calls[c].stored
         /\ \/ tokenCache[calls[c].url] = calls[c].authorization
            \/ tokenCache[calls[c].url] = JUndef
            \/ \E d \in CallIds \ {c} :
                 /\ Len(calls[d].log) = 3
                 /\ tokenCache[calls[c].url] = calls[d].log[3].authorization

\* C13 witness: LND reported a payment_error and the call threw it.
C13_Witness ==
  \E c \in CallIds :
    /\ SettlementFailed(c)
    /\ Reported(c)
    /\ calls[c].pc = "threw"
    /\ EndsWith(calls[c].error, InsufficientBalance)

\* The one answer the call has got is a response with a status other than 402.
NonChallenge(call) ==
  /\ Len(call.replies) = 1
  /\ call.replies[1].kind = "response"
  /\ call.replies[1].status # 402

\* The step in which call c gets such an answer to its first request.
FirstAnswered(c) ==
  /\ calls[c].pc = "first"
  /\ calls'[c].pc # "first"
  /\ NonChallenge(calls'[c])

NothingPaidOrStored(c) ==
  /\ calls'[c].log = calls[c].log
  /\ Len(calls'[c].log) = 1
  /\ calls'[c].stored = calls[c].stored
  /\ tokenCache' = tokenCache

Unpaid(data) ==
  [data |-> data, paid |-> JBool(FALSE), price |-> JUndef, preimage |-> JUndef]

\* C14, as claimed: whatever the status other than 402 of the first
\* response, the call returns {data: body, paid: false} with no price and no
\* preimage, sends nothing more, and the cache is as it was before.
C14_AnyOtherStatusReturns ==
  [][\A c \in CallIds :
       FirstAnswered(c)
         => /\ calls'[c].pc = "returned"
            /\ calls'[c].result = Unpaid(calls'[c].replies[1].body)
            /\ NothingPaidOrStored(c)]_vars

\* C14, amended: that holds when the body of the response is JSON; when it
\* is not (the empty body of a 204) the call rejects; either way the call
\* sends nothing more and the cache is as it was before, a stale entry that
\* the server has just rejected included.
C14_OtherStatusReturnsParsedBody ==
  [][\A c \in CallIds :
       FirstAnswered(c)
         => /\ IF IsJson(calls'[c].replies[1].body)
               THEN /\ calls'[c].pc = "returned"
                    /\ calls'[c].result = Unpaid(calls'[c].replies[1].body)
               ELSE /\ calls'[c].pc = "threw"
                    /\ calls'[c].result = NoResult
            /\ NothingPaidOrStored(c)]_vars

\* C14 witness: a call sent a cached credential, was answered 401 and
\* returned the body unpaid; the credential is still in the cache.
C14_Witness ==
  \E c \in CallIds :
    /\ NonChallenge(calls[c])
    /\ calls[c].replies[1].status = 401
    /\ calls[c].authorization # JUndef
    /\ calls[c].pc = "returned"
    /\ calls[c].result = Unpaid(Denied)
    /\ tokenCache[calls[c].url] = calls[c].authorization

\* C15: constructing the middleware, with skipTlsVerify or without, leaves
\* NODE_TLS_REJECT_UNAUTHORIZED as it was, and whenever no request is being
\* handled the variable has the value it had before the construction.
C15_MiddlewareKeepsTlsSetting ==
  (mw.built /\ pending = Idle) => tlsEnv = tlsOrig

Finished(c) == calls[c].pc \in {"returned", "threw"}
InFlight(c) == calls[c].pc \notin {"idle", "returned", "threw"}

\* No two calls of client.fetch have run at the same time: of any two, one
\* has not been made, or was made after the other had finished.
NoOverlap ==
  \A c \in CallIds : \A d \in CallIds \ {c} :
    \/ calls[c].pc = "idle"
    \/ calls[d].pc = "idle"
    \/ c \in calls[d].after
    \/ d \in calls[c].after

\* C16: creating a client leaves NODE_TLS_REJECT_UNAUTHORIZED as it was; as
\* long as the calls of client.fetch run one at a time, the variable differs
\* from its original value only while a call of a skipTlsVerify client
\* awaits LND, and then it is '0'; once a call has returned or thrown the
\* variable is what it was when the call was made, unset if it was unset.
C16_ClientTlsScoped ==
  /\ (\A c \in CallIds : calls[c].pc = "idle") => tlsEnv = tlsOrig
  /\ NoOverlap
       => /\ \A c \in CallIds :
               (Finished(c) /\ \A d \in CallIds : ~InFlight(d))
                 => (tlsEnv = calls[c].log[1].tls /\ tlsEnv = tlsOrig)
          /\ (tlsEnv # tlsOrig)
               => /\ tlsEnv = "0"
                  /\ client.skipTlsVerify
                  /\ \E c \in CallIds : calls[c].pc = "pay"
          /\ \A c \in CallIds :
               (calls[c].pc = "pay" /\ client.skipTlsVerify)
                 => (tlsEnv = "0" /\ calls[c].log[2].tls = "0")

\* C16 witness: the variable was unset, a call of a skipTlsVerify client
\* sent its payment to LND with the variable at '0', the fetch rejected, and
\* the variable is unset again.
C16_Witness ==
  \E c \in CallIds :
    /\ NoOverlap
    /\ client.skipTlsVerify
    /\ calls[c].pc = "threw"
    /\ Len(calls[c].replies) = 2
    /\ calls[c].replies[2].kind = "throw"
    /\ calls[c].log[2].tls = "0"
    /\ tlsOrig = "unset"
    /\ tlsEnv = "unset"

\* The header is the keyword L402 in either letter case, a space, and a
\* credential; Canonical is the same credential behind 'L402 '.
IsL402(h) ==
  /\ h.t = "str"
  /\ Len(h.s) >= 5
  /\ h.s[1] \in {"L", "l"}
  /\ SubSeq(h.s, 2, 5) = <<"4", "0", "2", " ">>
Canonical(h) == JStr(<<"L", "4", "0", "2", " ">> \o SubSeq(h.s, 6, Len(h.s)))

\* What the handler does with a header that is not left to the challenge
\* path: [status, body, nextCalls, l402].
Verdict(auth) ==
  IF auth.branch = "next"
    THEN [status |-> 0, body |-> NoBody, nextCalls |-> 1, l402 |-> auth.l402]
    ELSE [status |-> 401, body |-> ErrorBody("Invalid L402 token"), nextCalls |-> 0,
          l402 |-> NoProof]

\* C17: a request whose header carries the scheme keyword in either letter
\* case is answered as the same credential behind 'L402 ' is: passed to
\* next() with the same proof when that one is accepted, answered 401 when
\* that one is rejected, and never left to the challenge path.
C17_SchemeCaseInsensitive ==
  (last.seen /\ IsL402(LastHeader))
    => /\ Authorized(Canonical(LastHeader)).branch \in {"next", "reject"}
       /\ [status |-> last.status, body |-> last.body, nextCalls |-> last.nextCalls,
           l402 |-> last.l402]
            = Verdict(Authorized(Canonical(LastHeader)))

\* C17 witness: a credential behind 'l402 ' was accepted.
C17_Witness ==
  /\ last.seen
  /\ LastHeader = Credential(SchemeLower, TokenA, PreimageA)
  /\ last.nextCalls = 1
  /\ last.l402.present

\* C18, as claimed: verifyPreimage(s1, commit(s2)) is true when s1 = s2 and
\* false for every two secrets that differ.
C18_DistinctSecretsNeverVerify ==
  probe.verified => (probe.verdict <=> probe.preimage = probe.other)

\* C18, amended: verifyPreimage(s, commit(s)) is true, and
\* verifyPreimage(s1, commit(s2)) is true exactly when s1 and s2 hex-decode
\* to the same bytes: secrets that differ in the letter case of their
\* digits, or in what follows the last pair of hex digits, verify against
\* each other's commitment.
C18_VerifiesSameBytes ==
  probe.verified
    => /\ (probe.preimage = probe.other) => probe.verdict
       /\ probe.verdict <=> (HexDecode(probe.preimage) = HexDecode(probe.other))

\* C18 witness: the upper-case spelling of a secret verified against the
\* commitment of the lower-case one.
C18_Witness ==
  /\ probe.verified
  /\ probe.preimage = <<"A", "B">>
  /\ probe.other = PreimageA
  /\ probe.verdict

\* C19: parseServiceMacaroon of what createServiceMacaroon returned for
\* (paymentHash, service) at time now is an object of four fields:
\* version 1, that paymentHash, that service, and issuedAt = now.
C19_TokenRoundTrip ==
  probe.parsed
    => /\ probe.decoded.ok
       /\ probe.decoded.data.t = "obj"
       /\ Len(probe.decoded.data.f) = 4
       /\ GetProp(probe.decoded.data, KeyVersion) = JNum(1)
       /\ GetProp(probe.decoded.data, KeyPaymentHash) = JStr(probe.paymentHash)
       /\ GetProp(probe.decoded.data, KeyService) = JStr(probe.service)
       /\ GetProp(probe.decoded.data, KeyIssuedAt) = JNum(probe.now)

\* C19 witness: a token for a path with a character outside ASCII was
\* created and parsed back.
C19_Witness ==
  /\ probe.parsed
  /\ probe.service = <<"/", ReplacementChar, "x">>
  /\ probe.paymentHash = PreimageHash(PreimageA)
  /\ GetProp(probe.decoded.data, KeyService) = JStr(probe.service)

\* C20: every request with an L402 credential that is not passed to next()
\* gets one and the same response, 401 {error: 'Invalid L402 token'} with no
\* other header, call or log line, whether the credential has no separator,
\* an empty or undecodable token, a token that lacks a field, or a secret
\* that does not match the commitment: no two rejections differ.
C20_RejectionsAlike ==
  (last.seen /\ IsL402(LastHeader) /\ last.nextCalls = 0)
    => /\ last.status = 401
       /\ last.body = ErrorBody("Invalid L402 token")
       /\ last.wwwAuthenticate = <<>>
       /\ last.invoiceCalls = 0
       /\ ~last.logged
       /\ ~last.l402.present

\* C20 witness: a macaroon presented with a secret that does not match its
\* paymentHash got that response.
C20_Witness ==
  /\ last.seen
  /\ LastHeader = Credential(Scheme, TokenA, PreimageB)
  /\ last.status = 401
  /\ last.body = ErrorBody("Invalid L402 token")

\* The step in which the handler, back from createInvoice, sends a 402.
Emitted ==
  /\ pending.pc = "invoice"
  /\ pending'.pc = "idle"
  /\ last'.status = 402

\* The WWW-Authenticate value for a token and a payment request.
ChallengeHeader(token, invoice) ==
  <<"L", "4", "0", "2", " ", "m", "a", "c", "a", "r", "o", "o", "n", "=", "\"">> \o token
    \o <<"\"", ",", " ", "i", "n", "v", "o", "i", "c", "e", "=", "\"">> \o invoice \o <<"\"">>

\* C21: the token of every 402 the handler sends decodes to paymentHash =
\* hex of the r_hash LND returned and service = the path of the request;
\* the WWW-Authenticate header carries the body's macaroon and the body's
\* invoice, which is LND's payment_request; the body's price is the amount
\* the invoice was asked for.
C21_ChallengeBindsInvoice ==
  [][Emitted
       => /\ last'.req = pending.req
          /\ last'.body.kind = "challenge"
          /\ \E now \in 1..MaxClock :
               TokenJSON(last'.body.macaroon).v
                 = JObj(<< <<KeyVersion, JNum(1)>>,
                           <<KeyPaymentHash,
                             JStr(HexEncode(Base64Decode(last'.lnd.r_hash.s)))>>,
                           <<KeyService, JStr(pending.req.path)>>,
                           <<KeyIssuedAt, JNum(now)>> >>)
          /\ last'.body.invoice = last'.lnd.payment_request
          /\ last'.wwwAuthenticate
               = ChallengeHeader(last'.body.macaroon, last'.body.invoice)
          /\ last'.body.price = pending.finalPrice
          /\ (last'.body.price.t = "num")
               => pending.value = IntToStr(last'.body.price.n)]_vars

\* C21 witness: a request for /b was answered 402 with a token for /b and
\* the hash of LND's invoice.
C21_Witness ==
  /\ last.seen
  /\ last.status = 402
  /\ last.req.path = PathB
  /\ last.lnd.r_hash = JStr(RHashOf(PreimageA))
  /\ GetProp(TokenJSON(last.body.macaroon).v, KeyService) = JStr(PathB)
  /\ GetProp(TokenJSON(last.body.macaroon).v, KeyPaymentHash) = JStr(Commit(PreimageA))

\* The price is what priceFn returned when a priceFn is configured, the
\* static price when none is.
Chosen(price) ==
  IF mw.priceFn THEN price \in PriceFnResults ELSE price = mw.price

\* The amount as the POST to LND writes it.
AmountText(price) ==
  IF price.t = "num" THEN IntToStr(price.n)
  ELSE IF price.t = "nan" THEN <<"N", "a", "N">>
  ELSE <<"I", "n", "f", "i", "n", "i", "t", "y">>

\* C22: the handler waits for priceFn only when one is configured; the
\* invoice is asked for the result of priceFn when one is configured and
\* for the static price otherwise, and the 402 body carries that same price.
C22_PriceChosen ==
  /\ (pending.pc = "price") => mw.priceFn
  /\ (pending.pc = "invoice")
       => (Chosen(pending.finalPrice) /\ pending.value = AmountText(pending.finalPrice))
  /\ (last.seen /\ last.status = 402)
       => (Chosen(last.finalPrice) /\ last.body.price = last.finalPrice)

\* C22 witness: with a static price of 100 and a priceFn that returned 200,
\* the challenge asks 200.
C22_Witness ==
  /\ last.seen
  /\ last.status = 402
  /\ mw.priceFn
  /\ mw.price = JNum(100)
  /\ last.body.price = JNum(200)

\* The targets for which a call has stored a token since the cache was
\* last cleared.
StoredTargets == {calls[c].url : c \in {d \in CallIds : calls[d].stored}}

\* C23: cacheSize() is 0 for a new client, and always the number of
\* targets for which a payment was stored since the last clearCache();
\* a call attaches a cached Authorization header exactly when a token
\* stored for its target had not been cleared when it was made, so the
\* first call to a paid target after clearCache() attaches none.
C23_CacheSizeCountsStored ==
  /\ (\A c \in CallIds : calls[c].pc = "idle" /\ ~calls[c].stored) => cacheSize = 0
  /\ cacheSize = Cardinality(StoredTargets)
  /\ \A url \in Targets : (tokenCache[url] # JUndef) <=> (url \in StoredTargets)
  /\ \A c \in CallIds :
       (calls[c].pc # "idle")
         => /\ calls[c].log[1].authorization = calls[c].authorization
            /\ (calls[c].authorization # JUndef) <=> (calls[c].cached # {})

\* C23 witness: one call paid for a target, the cache was cleared, and the
\* next call to that target went out with no Authorization header.
C23_Witness ==
  \E c \in CallIds : \E d \in CallIds :
    /\ d \in calls[c].after
    /\ AutoPaid(d)
    /\ calls[d].url = calls[c].url
    /\ ~calls[d].stored
    /\ calls[c].log[1].authorization = JUndef
    /\ cacheSize = 0

\* The requests a call has sent to its target.
TargetRequests(c) ==
  {i \in 1..Len(calls[c].log) : calls[c].log[i].to = "target"}

\* C24: every request of a call to its target, the first and the paid
\* retry, carries the caller's method, body and X-Custom header; the retry
\* carries the Authorization header beside them.
C24_OptionsForwarded ==
  \A c \in CallIds :
    /\ \A i \in TargetRequests(c) :
         /\ calls[c].log[i].url = calls[c].url
         /\ calls[c].log[i].method = calls[c].options.method
         /\ calls[c].log[i].body = calls[c].options.body
         /\ calls[c].log[i].xCustom = calls[c].options.xCustom
    /\ (Len(calls[c].log) = 3) => calls[c].log[3].authorization.t = "str"

\* C25: a request with an L402 header is settled without a call to LND and
\* without a price being computed, whatever the handler is waiting for at
\* that moment; it is never the request of a challenge in the making; and
\* what it gets is a matter of its header alone: next() with the proof read
\* off the header when the secret matches the token's paymentHash, the one
\* 401 otherwise.
C25_VerificationOffline ==
  /\ (pending.pc # "idle") => ~IsL402(pending.req.authorization)
  /\ (last.seen /\ IsL402(LastHeader))
       => /\ last.invoiceCalls = 0
          /\ last.lnd = NoLndReply
          /\ last.finalPrice = JUndef
          /\ ~last.logged
          /\ [status |-> last.status, body |-> last.body,
              nextCalls |-> last.nextCalls, l402 |-> last.l402]
               = IF LastFacts.satisfies
                   THEN [status |-> 0, body |-> NoBody, nextCalls |-> 1,
                         l402 |-> [present |-> TRUE, paid |-> TRUE,
                                   preimage |-> LastFacts.secret,
                                   paymentHash |-> LastFacts.paymentHash,
                                   service |-> LastFacts.service]]
                   ELSE [status |-> 401, body |-> ErrorBody("Invalid L402 token"),
                         nextCalls |-> 0, l402 |-> NoProof]

\* C25 witness: a credential was rejected while the handler was waiting for
\* LND on behalf of another request.
C25_Witness ==
  /\ last.seen
  /\ IsL402(LastHeader)
  /\ last.status = 401
  /\ pending.pc = "invoice"

\* C26, as claimed: the cache holds an entry for a target only if a call on
\* it got through settlement and had its retry answered, and a call that
\* ended in an error has left no entry of its own.
C26_CachedOnlyAfterRetryAnswered ==
  /\ \A url \in Targets :
       (tokenCache[url] # JUndef)
         => \E c \in CallIds : calls[c].url = url /\ AutoPaid(c)
  /\ \A c \in CallIds : (calls[c].pc = "threw") => ~calls[c].stored

\* C26, amended: the cache holds an entry for a target only if a call on it
\* got through settlement; the entry is the Authorization of that call's
\* retry and is stored before the retry is sent.  A call that ends in an
\* error before its retry is sent has stored nothing; one whose retry
\* fails ends in an error with its entry left in the cache.
C26_CachedOnlyAfterSettlement ==
  /\ \A url \in Targets :
       (tokenCache[url] # JUndef)
         => \E c \in CallIds :
              /\ calls[c].url = url
              /\ GotFirst402(c)
              /\ Settled(c)
              /\ Len(calls[c].log) = 3
              /\ tokenCache[url] = calls[c].log[3].authorization
  /\ \A c \in CallIds :
       /\ calls[c].stored => (Settled(c) /\ Len(calls[c].log) = 3)
       /\ (calls[c].pc = "threw" /\ Len(calls[c].log) < 3) => ~calls[c].stored

\* C26 witness: a call paid, its retry failed, the call threw, and its
\* credential is in the cache.
C26_Witness ==
  \E c \in CallIds :
    /\ calls[c].pc = "threw"
    /\ Len(calls[c].replies) = 3
    /\ calls[c].replies[3].kind = "throw"
    /\ calls[c].stored
    /\ tokenCache[calls[c].url] = calls[c].log[3].authorization

\* C27: whenever every call of client.fetch that was made has finished, and
\* with them every call of lndFetch, in whatever order they ran and ended,
\* NODE_TLS_REJECT_UNAUTHORIZED has the value it had before the first one.
C27_ConcurrentCallsRestoreTls ==
  (\A c \in CallIds : ~InFlight(c)) => tlsEnv = tlsOrig

\* The step in which call c sends a request to its target.
SendsToTarget(c) ==
  /\ Len(calls'[c].log) = Len(calls[c].log) + 1
  /\ calls'[c].log[Len(calls'[c].log)].to = "target"

\* C28: no request to a target, first or retry, is sent with
\* NODE_TLS_REJECT_UNAUTHORIZED at '0' while some call's payment to LND is
\* in flight.
C28_TargetRequestsVerified ==
  [][\A c \in CallIds :
       SendsToTarget(c)
         => ~ /\ calls'[c].log[Len(calls'[c].log)].tls = "0"
              /\ \E d \in CallIds : calls[d].pc = "pay"]_vars

\* The credential call d builds: its own challenge's token and the hex of
\* the preimage LND revealed to it.
OwnCredential(d) ==
  JStr(<<"L", "4", "0", "2", " ">>
         \o GetProp(calls[d].replies[1].body, KeyMacaroon).s
         \o <<":">> \o RevealedHex(d))

\* The call got as far as building a credential, which it stored and sent.
Built(c) == Len(calls[c].log) = 3

\* The credentials built so far by the calls on a target.
BuiltOn(url) ==
  {OwnCredential(d) : d \in {e \in CallIds : Built(e) /\ calls[e].url = url}}

\* C29: whatever the interleaving, the cache entry of a target, the
\* credential a call read from the cache for its first request, and the
\* credential a call stored are each the whole credential of one call on
\* that target: that call's challenge token with that call's preimage.
C29_CacheHoldsOwnCredentials ==
  /\ \A url \in {TargetA, TargetB} :
       tokenCache[url] = JUndef \/ tokenCache[url] \in BuiltOn(url)
  /\ \A c \in CallIds :
       /\ (calls[c].pc # "idle")
            => \/ calls[c].authorization = JUndef
               \/ calls[c].authorization \in BuiltOn(calls[c].url)
       /\ Built(c)
            => /\ calls[c].log[3].authorization = OwnCredential(c)
               /\ OwnCredential(c) =
                    JStr(<<"L", "4", "0", "2", " ">> \o MacaroonFor(c, calls[c].url)
                           \o <<":">> \o PreimageOf(c))

\* C29 witness: two calls on one target overlapped and each stored its
\* credential; the cache holds the one stored last, that of the first call.
C29_Witness ==
  /\ calls["c1"].stored /\ calls["c2"].stored
  /\ calls["c1"].url = calls["c2"].url
  /\ "c1" \notin calls["c2"].after
  /\ OwnCredential("c1") # OwnCredential("c2")
  /\ tokenCache[calls["c1"].url] = OwnCredential("c1")

\* Every network call of the call has completed: each request has its
\* answer and, where LND answered OK, the body of the answer has been read.
AllAnswered(c) ==
  /\ calls[c].pc # "idle"
  /\ Len(calls[c].replies) = Len(calls[c].log)
  /\ calls[c].pc # "payment"

\* The retry of the call was answered.
RetryAnswered(c) == Len(calls[c].replies) = 3

\* A call makes at most one settlement call and at most two requests to
\* its target, has finished once all its network calls have completed, and
\* has finished without a fourth network call once its retry is answered.
SingleShot(c) ==
  /\ CallsTo(c, "lnd") <= 1
  /\ CallsTo(c, "target") <= 2
  /\ AllAnswered(c) => Finished(c)
  /\ RetryAnswered(c) => (Finished(c) /\ Len(calls[c].log) = 3)

\* C30: every invocation of client.fetch makes at most one settlement call
\* and at most two requests to the target, a retry answered with 402 or an
\* error included, and, with every network call completing, an invocation
\* that was started returns or throws.
C30_SingleShotTerminates ==
  /\ [](\A c \in CallIds : SingleShot(c))
  /\ \A c \in CallIds : (calls[c].pc # "idle") ~> Finished(c)

\* C30 witness: the retry of a call that paid was answered with 402 again;
\* the call returned after three network calls, one of them to LND.
C30_Witness ==
  \E c \in CallIds :
    /\ RetryAnswered(c)
    /\ calls[c].replies[3].kind = "response"
    /\ calls[c].replies[3].status = 402
    /\ calls[c].pc = "returned"
    /\ CallsTo(c, "lnd") = 1
    /\ CallsTo(c, "target") = 2

\* C31: a call made while the cache holds the credential another call
\* stored for the same target sends that credential with its first request,
\* whatever the methods, bodies and headers of the two calls; a call to a
\* target for which nothing is stored sends none.
C31_CacheKeyedByTarget ==
  \A c \in CallIds :
    (calls[c].pc # "idle")
      => /\ \A d \in calls[c].cached :
              /\ calls[d].url = calls[c].url
              /\ calls[c].log[1].authorization = OwnCredential(d)
         /\ (calls[c].cached = {}) => (calls[c].log[1].authorization = JUndef)

\* C31 witness: the first call paid for a POST with a body and a header;
\* the second, a plain GET of the same target, sent the credential of the
\* first.
C31_Witness ==
  /\ calls["c1"].options = PostOptions
  /\ calls["c2"].options = NoOptions
  /\ calls["c2"].cached = {"c1"}
  /\ calls["c2"].log[1].authorization = OwnCredential("c1")
  /\ calls["c2"].log[1].method = JUndef

\* C31 witness for the other target: the second call went to a target of
\* its own while the credential of the first was stored, and sent none.
C31_WitnessOtherTarget ==
  /\ calls["c1"].stored
  /\ calls["c2"].pc # "idle"
  /\ calls["c2"].url # calls["c1"].url
  /\ "c1" \in calls["c2"].kept
  /\ calls["c2"].log[1].authorization = JUndef

\* The paymentHash of the token is the digest of the secret up to the
\* letter case of its hex digits.
CommitsUpToCase(facts) ==
  /\ facts.wellFormed
  /\ facts.paymentHash.t = "str"
  /\ ToLowerCase(facts.paymentHash.s) = facts.commit

\* C32: a credential whose secret hashes to the paymentHash of its token up
\* to the letter case of the hex digits, a paymentHash in upper-case hex
\* included, is verified and the request is passed to next().
C32_HashComparedCaseNormalized ==
  (last.seen /\ CommitsUpToCase(LastFacts))
    => /\ last.nextCalls = 1
       /\ last.status = 0
       /\ last.l402.present

\* The four outcomes of a handled request.
PassedOn(o) ==
  /\ o.nextCalls = 1
  /\ o.status = 0
  /\ o.body = NoBody
  /\ o.l402.present /\ o.l402.paid
Answered(o, status, kind) ==
  /\ o.status = status
  /\ o.body.kind = kind
  /\ o.nextCalls = 0
  /\ ~o.l402.present
OutcomesOf(o) ==
  {k \in {"next", "401", "402", "500"} :
     \/ k = "next" /\ PassedOn(o)
     \/ k = "401" /\ Answered(o, 401, "error")
     \/ k = "402" /\ Answered(o, 402, "challenge")
     \/ k = "500" /\ Answered(o, 500, "error")}

C34_CredentialNotBoundToResource ==
  (last.seen /\ LastFacts.satisfies /\ LastFacts.service # JStr(last.req.path))
    => /\ last.nextCalls = 1
       /\ last.status = 0
       /\ last.l402.present
       /\ last.l402.service = LastFacts.service
       /\ last.l402.service # JStr(last.req.path)

\* C34 witness: the token issued for PathA was accepted on PathB.
C34_Witness ==
  /\ last.seen
  /\ last.req.path = PathB
  /\ LastFacts.satisfies
  /\ LastFacts.service = JStr(PathA)
  /\ last.nextCalls = 1
  /\ last.l402.service = JStr(PathA)

\* The credentials followed through their presentations: TokenA with its
\* preimage, with the preimage in upper case, and with the scheme in lower
\* case.
Replayed ==
  {ReplayCredential, Credential(Scheme, TokenA, <<"A", "B">>),
   Credential(SchemeLower, TokenA, PreimageA)}

\* The proof a credential stands for: the secret, and the paymentHash and
\* service of its token.
ProofOf(h) ==
  [present |-> TRUE, paid |-> TRUE, preimage |-> FactsOf(h).secret,
   paymentHash |-> FactsOf(h).paymentHash, service |-> FactsOf(h).service]

\* The request handled last carried h; it was passed to next(); it was
\* passed to next() with the proof h stands for.
Presented(h) == last.seen /\ last.req.authorization = h
AcceptedNow(h) == Presented(h) /\ last.nextCalls = 1
AcceptedWith(h) ==
  /\ AcceptedNow(h)
  /\ last.status = 0
  /\ last.l402 = ProofOf(h)

\* C35: accepting a credential changes nothing of the middleware but the
\* count kept for the record, and from the moment a credential is accepted
\* every request that carries it, whatever was handled in between and
\* whatever is waiting, is passed to next() with one and the same proof.
C35_AcceptanceRepeatable ==
  /\ [][last'.nextCalls = 1 /\ last' # last
          => /\ pending' = pending
             /\ [mw' EXCEPT !.replays = 0] = [mw EXCEPT !.replays = 0]
             /\ tlsEnv' = tlsEnv]_vars
  /\ \A h \in Replayed :
       [](AcceptedNow(h) => [](Presented(h) => AcceptedWith(h)))

\* C35 witness: TokenA with its preimage has gone to next() for the second
\* time or more, this time on another path than its own and while the
\* challenge of another request waits for LND.
C35_Witness ==
  /\ mw.replays = MaxReplays
  /\ AcceptedWith(ReplayCredential)
  /\ last.req.path = PathB
  /\ pending.pc = "invoice"

\* C36: every call that made a settlement call had a 402 challenge whose
\* price is there, is a number and does not exceed the ceiling; a challenge
\* with no price leads to no settlement call.
C36_SettlementOnlyForPricedChallenge ==
  \A c \in CallIds :
    (CallsTo(c, "lnd") >= 1)
      => /\ GotChallenge(c)
         /\ PriceAsked(c) <= Ceiling

====
